---- MODULE Spec2Model ----
(***************************************************************************)
(* A model of the Plants repository: the MCP tool server                   *)
(* (plants_mcp/tools) that drives Home Assistant over its REST API, and    *)
(* the Home Assistant integration (ha_integration) that stores plants and  *)
(* lamps and serves the plants.* services.                                 *)
(*                                                                         *)
(* Strings whose content the code inspects (plant names, identifiers) are  *)
(* sequences of one-character strings; an entity id "domain.object" is the *)
(* pair <<domain, object>>; Python's None is the string NONE.              *)
(***************************************************************************)
EXTENDS Integers, Sequences, FiniteSets, TLC

VARIABLES
    \* ---- one MCP tool call (plants_mcp/tools) ----
    token,      \* whether HA_TOKEN is set in the tool process
    tool,       \* the tool that was called ("idle" before the call)
    pc,         \* where the call stands
    args,       \* the call's arguments
    states,     \* the /api/states list the call read
    target,     \* the entity the call resolved (watering switch, manual id)
    queue,      \* requests still to send (field updates, automation ids)
    nerr,       \* failures the call has observed so far
    failSeen,   \* an HTTP request of this call failed
    slept,      \* whole seconds spent in delay()
    log,        \* the HTTP requests that reached Home Assistant, with answers
    result,     \* the status returned to the caller
    \* ---- match_plant_name ----
    mNames, mIdentifier, mResult,
    \* ---- _build_auto_watering_events ----
    hEntries, hSorted, hEvents,
    \* ---- the Home Assistant integration ----
    cfg,        \* config entry registry: entry ids in creation order
    loaded,     \* hass.data[DOMAIN]["entries"]: entry id -> PlantsData
    store,      \* the payload last written to each entry's store
    saves,      \* async_save calls made by the service call in progress
    reloads,    \* async_reload calls made by the service call in progress
    registered, \* hass.data[DOMAIN]["services_registered"]
    nextId,     \* the next fresh uuid
    call,       \* the service call in progress
    \* ---- the entities of one loaded Plants entry ----
    ePlants,    \* PlantsData.plants: the dict, as (key, Plant) in order
    eSaved,     \* the payload last handed to the store
    eNumbers,   \* the number platform of the entry has been set up
    eNext,      \* the next fresh uuid of this entry
    eLast,      \* the operation completed last
    \* ---- the proxy switches and the proxy valve of one plant ----
    xLinks,     \* the plant's light, water and humidifier entity ids
    xStates,    \* hass.states: the state of each outlet ("absent": none)
    xCalls,     \* the service calls made through hass.services.async_call
    xLast,      \* the proxy command handled last
    xSubs,      \* the outlet each proxy tracks since async_added_to_hass
    xWrote,     \* the proxies that wrote their state in the last step
    \* ---- the points of get_plant_history ----
    gIn,        \* the call's arguments, the clock and the history it reads
    gOut,       \* what the call returned
    \* ---- service calls that overlap ----
    oHeap,      \* the PlantsData objects made so far, by object number
    oLoaded,    \* the object in hass.data for the Plants entry (0: none)
    oCalls,     \* the service calls, each with the object it holds
    \* ---- saving and loading the plants ----
    rIn,        \* the plants in memory, or the records found in the store
    rOut,       \* the plants _parse_raw made of them
    \* ---- the user config flows ----
    fEntries,   \* the config entries of the domain: the data of each
    fFlows      \* the config flows, each where it stands

toolVars == <<token, tool, pc, args, states, target, queue, nerr, failSeen,
              slept, log, result>>
matchVars == <<mNames, mIdentifier, mResult>>
histVars == <<hEntries, hSorted, hEvents>>
haVars == <<cfg, loaded, store, saves, reloads, registered, nextId, call>>
entVars == <<ePlants, eSaved, eNumbers, eNext, eLast>>
proxyVars == <<xLinks, xStates, xCalls, xLast, xSubs, xWrote>>
pointVars == <<gIn, gOut>>
overlapVars == <<oHeap, oLoaded, oCalls>>
roundVars == <<rIn, rOut>>
flowVars == <<fEntries, fFlows>>
laterVars == <<pointVars, overlapVars, roundVars, flowVars>>
moreVars == <<entVars, proxyVars, laterVars>>
vars == <<toolVars, matchVars, histVars, haVars, moreVars>>

NONE == "<None>"
\* None where a string (a character sequence) is expected
NoName == <<NONE>>
\* no entity id (None or the empty string: both are falsy)
NoEntity == <<>>

(***************************************************************************)
(* Bounds of the model.                                                    *)
(***************************************************************************)
MaxDuration == 2
MaxNameLen == 2
MaxEntries == 4
MaxTime == 3
TicksPerSecond == 2
MaxId == 5
MaxLinks == 2
MaxLamps == 1

(***************************************************************************)
(* Strings as character sequences.                                         *)
(***************************************************************************)
Chars == {"A", "a", " "}

LowerChar(c) == IF c = "A" THEN "a" ELSE c

\* str.lower()
Lower(s) == [i \in 1..Len(s) |-> LowerChar(s[i])]

RECURSIVE LStrip(_)
LStrip(s) == IF s # <<>> /\ Head(s) = " " THEN LStrip(Tail(s)) ELSE s

RECURSIVE RStrip(_)
RStrip(s) ==
    IF s # <<>> /\ s[Len(s)] = " " THEN RStrip(SubSeq(s, 1, Len(s) - 1)) ELSE s

\* str.strip()
Strip(s) == RStrip(LStrip(s))

RECURSIVE StringsUpTo(_)
StringsUpTo(n) ==
    IF n = 0 THEN {<<>>}
    ELSE LET shorter == StringsUpTo(n - 1)
         IN shorter \cup {Append(s, c) : s \in shorter, c \in Chars}

\* for name in names: if name == candidate: return name
FirstExact(names, candidate) ==
    LET idx == {i \in 1..Len(names) : names[i] = candidate}
    IN IF idx = {} THEN NoName
       ELSE names[CHOOSE i \in idx : \A j \in idx : i <= j]

\* for name in names: if name.lower() == lowered: return name
FirstLower(names, lowered) ==
    LET idx == {i \in 1..Len(names) : Lower(names[i]) = lowered}
    IN IF idx = {} THEN NoName
       ELSE names[CHOOSE i \in idx : \A j \in idx : i <= j]

\* match_plant_name with the candidate compared as typed in the second loop
\* (the names are lower-cased, the candidate is not)
MatchNoLowerCandidate(names, identifier) ==
    LET candidate == Strip(identifier)
        exact == FirstExact(names, candidate)
    IN IF candidate = <<>> THEN NoName
       ELSE IF exact # NoName THEN exact
       ELSE FirstLower(names, candidate)

\* match_plant_name(names, identifier)
match_plant_name(names, identifier) ==
    LET candidate == Strip(identifier)
        exact == FirstExact(names, candidate)
    IN IF candidate = <<>> THEN NoName
       ELSE IF exact # NoName THEN exact
       ELSE FirstLower(names, Lower(candidate))

(***************************************************************************)
(* ha_request: one HTTP round trip to Home Assistant.                      *)
(***************************************************************************)
\* What Home Assistant (or the network) does with a request.
Answers ==
    { "transport_error",    \* httpx.HTTPError: no response
      "http_error_text",    \* status >= 400, a body
      "http_error_empty",   \* status >= 400, an empty body
      "ok_empty",           \* status < 400, no content
      "ok_json",            \* status < 400, a JSON body
      "ok_not_json" }       \* status < 400, a body that is not JSON

\* The request did not succeed at Home Assistant.
Failed(answer) ==
    answer \in {"transport_error", "http_error_text", "http_error_empty"}

\* the error element of ha_request's result: a message, "" (response.text of
\* an empty body) or None
HaError(answer) ==
    CASE answer = "transport_error" -> "Home Assistant request failed"
      [] answer = "http_error_text" -> "response.text"
      [] answer = "http_error_empty" -> ""
      [] answer = "ok_not_json" -> "Unexpected non-JSON response"
      [] OTHER -> NONE

\* Python's truth value of an error string: `if error:`
Truthy(error) == error \notin {NONE, ""}

\* ha_request that sends the request whether or not HA_TOKEN is set
HaRequestNoTokenCheck(answer) ==
    [sent |-> TRUE, error |-> HaError(answer), json |-> answer = "ok_json"]

\* ha_request's (data, error) when HA_TOKEN may be unset
HaRequest(answer) ==
    IF ~token THEN [sent |-> FALSE, error |-> "HA_TOKEN is not set", json |-> FALSE]
    ELSE [sent |-> TRUE, error |-> HaError(answer), json |-> answer = "ok_json"]

\* The log after a request with the given answer (nothing is sent without a
\* token).
Sent(path, entity, value, answer) ==
    IF HaRequest(answer).sent
    THEN Append(log, [path |-> path, entity |-> entity, value |-> value,
                      answer |-> answer])
    ELSE log

(***************************************************************************)
(* The /api/states list and parse_plants_from_states.  An entry's          *)
(* friendly_name "<plant> <suffix>" is kept as its two parts: plant (the   *)
(* text before the suffix) and key (the PLANT_SUFFIXES key of the suffix,  *)
(* NONE when the name ends with no known suffix).                          *)
(***************************************************************************)
PlantA == <<"A", "a">>
PlantB == <<"a">>

Entity(eid, plant, key, state, options, autoId) ==
    [entity_id |-> eid, plant |-> plant, key |-> key, state |-> state,
     options |-> options, auto_id |-> autoId]

WaterSwitch(state) ==
    Entity(<<"switch", "aa_water">>, PlantA, "water_power", state, <<>>, NONE)
WaterSelect ==
    Entity(<<"select", "aa_water_outlet">>, PlantA, "water_outlet", "valve.v1",
           <<"None", "valve.v1">>, NONE)
TodoText ==
    Entity(<<"text", "aa_todo">>, PlantA, "todo_list", "repot", <<>>, NONE)
ManualEvent ==
    Entity(<<"event", "aa_manual">>, PlantA, "manual_watering", "watered",
           <<>>, NONE)
MoistureB ==
    Entity(<<"sensor", "a_moisture">>, PlantB, "moisture", "40", <<>>, NONE)
Automation ==
    Entity(<<"automation", "water_daily">>, <<>>, NONE, "on", <<>>, "auto1")

Optional(flag, e) == IF flag THEN <<e>> ELSE <<>>

\* The lists of state objects Home Assistant may answer GET /api/states with.
Worlds ==
    { Optional(sw # "absent", WaterSwitch(sw)) \o Optional(sel, WaterSelect)
        \o Optional(txt, TodoText) \o Optional(man, ManualEvent)
        \o Optional(b, MoistureB) \o Optional(au, Automation) :
      sw \in {"absent", "off", "unavailable"}, sel \in BOOLEAN,
      txt \in BOOLEAN, man \in BOOLEAN, b \in BOOLEAN, au \in BOOLEAN }

\* The JSON bodies of a 2xx answer to GET /api/states.
StatesBodies ==
    {[kind |-> "list", items |-> w] : w \in Worlds}
      \cup {[kind |-> "not_list", items |-> <<>>],  \* e.g. a JSON object
            [kind |-> "bad_list", items |-> <<>>]}  \* a list holding a non-object

\* an entry parse_plants_from_states keeps: entity_id, a friendly_name with a
\* known suffix, a plant name that is not blank
Recognised(e) ==
    e.entity_id # NoEntity /\ e.key # NONE /\ Strip(e.plant) # <<>>

Range(seq) == {seq[i] : i \in 1..Len(seq)}

RECURSIVE PlantOrder(_)
\* the keys of parse_plants_from_states(states), in insertion order
PlantOrder(sts) ==
    IF sts = <<>> THEN <<>>
    ELSE LET prev == PlantOrder(SubSeq(sts, 1, Len(sts) - 1))
             e == sts[Len(sts)]
         IN IF Recognised(e) /\ Strip(e.plant) \notin Range(prev)
            THEN Append(prev, Strip(e.plant))
            ELSE prev

\* plants[name].get(f"{key}_entity_id"): the last entry of that plant and key
PlantEntity(sts, name, key) ==
    LET idx == {i \in 1..Len(sts) :
                  Recognised(sts[i]) /\ Strip(sts[i].plant) = name
                  /\ sts[i].key = key}
    IN IF idx = {} THEN NoEntity
       ELSE sts[CHOOSE i \in idx : \A j \in idx : j <= i].entity_id

\* plants[name].get(key): the state of the last entry of that plant and key
PlantValue(sts, name, key) ==
    LET idx == {i \in 1..Len(sts) :
                  Recognised(sts[i]) /\ Strip(sts[i].plant) = name
                  /\ sts[i].key = key}
    IN IF idx = {} THEN NONE
       ELSE sts[CHOOSE i \in idx : \A j \in idx : j <= i].state

\* next((state for state in states if state.get("entity_id") == eid), None):
\* the state of the first such entry, NONE when there is no such entry
StateOf(sts, eid) ==
    LET idx == {i \in 1..Len(sts) : sts[i].entity_id = eid}
    IN IF idx = {} THEN NONE
       ELSE sts[CHOOSE i \in idx : \A j \in idx : i <= j].state

\* get_states_list followed by the tool's first pass over the list:
\* "error" (a truthy error, or a body that is not a list), "raised" (the list
\* holds a non-object, state.get raises AttributeError) or "ok".
GetStates(answer, body) ==
    LET r == HaRequest(answer)
    IN IF Truthy(r.error) THEN "error"
       ELSE IF ~r.json \/ body.kind = "not_list" THEN "error"
       ELSE IF body.kind = "bad_list" THEN "raised"
       ELSE "ok"

Identifiers == {<<"A", "a">>, <<"a", "a">>, <<"a", " ">>, <<"A">>, <<" ">>}
Durations == -1..MaxDuration

\* return {"status": status, ...}
Return(status) ==
    /\ pc' = "done"
    /\ result' = status

\* an HTTP request failed in this step (and reached Home Assistant)
NoteFailure(answer) ==
    failSeen' = (failSeen \/ (token /\ Failed(answer)))

(***************************************************************************)
(* plant_care___water and water_plant                                      *)
(***************************************************************************)
WaterTools == {"plant_care___water", "water_plant"}

\* lines 597-631: validation, GET /api/states, the plant and its switch
WaterBegin(t, identifier, duration, answer, body) ==
    /\ pc = "idle"
    /\ t \in WaterTools
    /\ tool' = t
    /\ args' = [identifier |-> identifier, duration_seconds |-> duration]
    /\ UNCHANGED <<token, queue, nerr, slept>>
    /\ IF duration <= 0
       THEN /\ Return("error")
            /\ UNCHANGED <<states, target, log, failSeen>>
       ELSE LET got == GetStates(answer, body)
                name == match_plant_name(PlantOrder(body.items), identifier)
                switch == PlantEntity(body.items, name, "water_power")
            IN /\ log' = Sent("GET /api/states", NoEntity, NONE, answer)
               /\ NoteFailure(answer)
               /\ IF got # "ok"
                  THEN /\ Return(got)
                       /\ UNCHANGED <<states, target>>
                  ELSE /\ states' = body.items
                       /\ IF \/ name = NoName
                             \/ switch = NoEntity
                             \/ StateOf(body.items, switch) \in {NONE, "unavailable"}
                          THEN /\ Return("error")
                               /\ UNCHANGED target
                          ELSE /\ pc' = "turn_on"
                               /\ target' = switch
                               /\ UNCHANGED result

\* lines 632-638: POST switch/turn_on
WaterTurnOn(answer) ==
    /\ pc = "turn_on"
    /\ tool \in WaterTools
    /\ log' = Sent("switch/turn_on", target, NONE, answer)
    /\ NoteFailure(answer)
    /\ IF Truthy(HaRequest(answer).error)
       THEN Return("error")
       ELSE pc' = "sleeping" /\ UNCHANGED result
    /\ UNCHANGED <<token, tool, args, states, target, queue, nerr, slept>>

\* line 639: await delay(duration_seconds), one second at a time
WaterSleep ==
    /\ pc = "sleeping"
    /\ slept < args.duration_seconds
    /\ slept' = slept + 1
    /\ UNCHANGED <<token, tool, pc, args, states, target, queue, nerr,
                   failSeen, log, result>>

\* a stop that still turns the switch off (a cleanup path the code lacks)
StopWithCleanup ==
    /\ pc = "sleeping"
    /\ pc' = "stopped"
    /\ log' = Sent("switch/turn_off", target, NONE, "ok_json")
    /\ UNCHANGED <<token, tool, args, states, target, queue, nerr, failSeen,
                   slept, result>>

\* The tool process dies during the delay: nothing of the call runs again
\* (no try/finally around the sleep, no signal handler).
ProcessStops ==
    /\ pc = "sleeping"
    /\ pc' = "stopped"
    /\ UNCHANGED <<token, tool, args, states, target, queue, nerr, failSeen,
                   slept, log, result>>

\* lines 640-652: POST switch/turn_off once the delay is over
WaterTurnOff(answer) ==
    /\ pc = "sleeping"
    /\ slept = args.duration_seconds
    /\ log' = Sent("switch/turn_off", target, NONE, answer)
    /\ NoteFailure(answer)
    /\ IF Truthy(HaRequest(answer).error)
       THEN Return("error")
       ELSE Return("success")
    /\ UNCHANGED <<token, tool, args, states, target, queue, nerr, slept>>

(***************************************************************************)
(* manage___add_plant, manage___remove_plant, manage___get_plant_fields_info,*)
(* plant_care___record_manual_watering                                     *)
(***************************************************************************)
\* manage.py lines 27-39
AddPlant(name, answer) ==
    /\ pc = "idle"
    /\ tool' = "manage___add_plant"
    /\ args' = [name |-> name]
    /\ UNCHANGED <<token, states, target, queue, nerr, slept>>
    /\ IF Strip(name) = <<>>
       THEN /\ Return("error")
            /\ UNCHANGED <<log, failSeen>>
       ELSE /\ log' = Sent("plants/add_plant", NoEntity, Strip(name), answer)
            /\ NoteFailure(answer)
            /\ IF Truthy(HaRequest(answer).error)
               THEN Return("error")
               ELSE Return("success")

\* GET /api/states and the plant lookup that open manage___remove_plant
\* (lines 44-50) and plant_care___record_manual_watering (lines 665-671)
LookupTools ==
    [manage___remove_plant |-> "plants/remove_plant",
     plant_care___record_manual_watering |-> "plants/record_watering"]

LookupBegin(t, identifier, answer, body) ==
    /\ pc = "idle"
    /\ t \in DOMAIN LookupTools
    /\ tool' = t
    /\ args' = [identifier |-> identifier]
    /\ log' = Sent("GET /api/states", NoEntity, NONE, answer)
    /\ NoteFailure(answer)
    /\ UNCHANGED <<token, queue, nerr, slept>>
    /\ LET got == GetStates(answer, body)
           name == match_plant_name(PlantOrder(body.items), identifier)
       IN IF got # "ok"
          THEN /\ Return(got)
               /\ UNCHANGED <<states, target>>
          ELSE /\ states' = body.items
               /\ IF name = NoName
                  THEN /\ Return("error")
                       /\ UNCHANGED target
                  ELSE /\ pc' = "post"
                       /\ target' = name
                       /\ UNCHANGED result

\* the service request that ends them (manage.py 51-58, plant_care.py 677-690)
LookupPost(answer) ==
    /\ pc = "post"
    /\ tool \in DOMAIN LookupTools
    /\ log' = Sent(LookupTools[tool], NoEntity, target, answer)
    /\ NoteFailure(answer)
    /\ IF Truthy(HaRequest(answer).error)
       THEN Return("error")
       ELSE Return("success")
    /\ UNCHANGED <<token, tool, args, states, target, queue, nerr, slept>>

\* entity_id.split(".")[0]
DomainOf(eid) == eid[1]

\* the entity ids manage___get_plant_fields_info lists for the plant: select
\* and text entities whose friendly name is "<name> <known suffix>"
\* get_plant_fields_info without the check of the entity's plant name
EditableIdsAnyPlant(sts, name) ==
    { sts[i].entity_id : i \in
        { j \in 1..Len(sts) :
            /\ sts[j].entity_id # NoEntity
            /\ sts[j].key # NONE
            /\ DomainOf(sts[j].entity_id) \in {"select", "text"} } }

EditableIds(sts, name) ==
    { sts[i].entity_id : i \in
        { j \in 1..Len(sts) :
            /\ sts[j].entity_id # NoEntity
            /\ sts[j].key # NONE
            /\ Strip(sts[j].plant) = name
            /\ DomainOf(sts[j].entity_id) \in {"select", "text"} } }

\* field_info of an editable entity: the last entry with that id wins
FieldInfo(sts, eid) ==
    LET idx == {i \in 1..Len(sts) : sts[i].entity_id = eid}
        e == sts[CHOOSE i \in idx : \A j \in idx : j <= i]
    IN [type |-> DomainOf(eid), options |-> e.options]

\* manage.py lines 63-141
GetFieldsInfo(plant_name, answer, body) ==
    /\ pc = "idle"
    /\ tool' = "manage___get_plant_fields_info"
    /\ args' = [plant_name |-> plant_name]
    /\ log' = Sent("GET /api/states", NoEntity, NONE, answer)
    /\ NoteFailure(answer)
    /\ UNCHANGED <<token, target, queue, nerr, slept>>
    /\ LET got == GetStates(answer, body)
           name == match_plant_name(PlantOrder(body.items), plant_name)
       IN IF got # "ok"
          THEN Return(got) /\ UNCHANGED states
          ELSE /\ states' = body.items
               /\ IF name = NoName THEN Return("error") ELSE Return("success")

(***************************************************************************)
(* manage___set_plant_fields                                               *)
(***************************************************************************)
\* The field updates a caller may pass: entity_id and value.
FieldUpdates ==
    { [entity_id |-> <<"select", "aa_water_outlet">>, value |-> "None"],
      [entity_id |-> <<"select", "aa_water_outlet">>, value |-> "bogus"],
      [entity_id |-> <<"text", "aa_todo">>, value |-> "prune"],
      [entity_id |-> <<"text", "aa_todo">>, value |-> NONE],
      [entity_id |-> NoEntity, value |-> "x"],
      [entity_id |-> <<"switch", "aa_water">>, value |-> "on"] }

FieldLists ==
    {<<>>} \cup {<<f>> : f \in FieldUpdates}
           \cup {<<f, g>> : f \in FieldUpdates, g \in FieldUpdates}

\* lines 173-228 for one field update: "error" or the service to call
Validate(sts, name, f) ==
    IF f.entity_id = NoEntity THEN "error"
    ELSE IF f.value = NONE THEN "error"
    ELSE IF f.entity_id \notin EditableIds(sts, name) THEN "error"
    ELSE LET info == FieldInfo(sts, f.entity_id)
         IN IF info.type = "select"
            THEN IF info.options = <<>> THEN "error"
                 ELSE IF f.value \notin Range(info.options) THEN "error"
                 ELSE "select/select_option"
            ELSE IF info.type = "text" THEN "text/set_value"
            ELSE "error"

RECURSIVE Updates(_, _, _)
\* the updates list built by the validation loop
Updates(sts, name, fields) ==
    IF fields = <<>> THEN <<>>
    ELSE LET f == Head(fields)
             v == Validate(sts, name, f)
             rest == Updates(sts, name, Tail(fields))
         IN IF v = "error" THEN rest
            ELSE <<[service |-> v, entity_id |-> f.entity_id,
                    value |-> f.value]>> \o rest

\* a validation loop that gives up after the first update
ValidationErrorsFirstOnly(sts, name, fields) ==
    Cardinality({i \in 1..Len(fields) :
        i = 1 /\ Validate(sts, name, fields[i]) = "error"})

\* len(errors) after the validation loop
ValidationErrors(sts, name, fields) ==
    Cardinality({i \in 1..Len(fields) : Validate(sts, name, fields[i]) = "error"})

\* lines 155-235: the fields info and the validation of every update
SetFieldsBegin(plant_name, fields, answer, body) ==
    /\ pc = "idle"
    /\ tool' = "manage___set_plant_fields"
    /\ args' = [plant_name |-> plant_name, fields |-> fields]
    /\ UNCHANGED <<token, target, slept>>
    /\ IF fields = <<>>
       THEN /\ Return("error")
            /\ UNCHANGED <<states, queue, nerr, log, failSeen>>
       ELSE LET got == GetStates(answer, body)
                name == match_plant_name(PlantOrder(body.items), plant_name)
            IN /\ log' = Sent("GET /api/states", NoEntity, NONE, answer)
               /\ NoteFailure(answer)
               /\ IF got # "ok"
                  THEN /\ Return(got)
                       /\ UNCHANGED <<states, queue, nerr>>
                  ELSE /\ states' = body.items
                       /\ IF name = NoName
                          THEN /\ Return("error")
                               /\ UNCHANGED <<queue, nerr>>
                          ELSE IF ValidationErrors(body.items, name, fields) > 0
                          THEN /\ Return("error")
                               /\ nerr' = ValidationErrors(body.items, name, fields)
                               /\ UNCHANGED queue
                          ELSE /\ pc' = "updating"
                               /\ queue' = Updates(body.items, name, fields)
                               /\ UNCHANGED <<nerr, result>>

\* lines 260-271: the status after the last update
SetFieldsResult(errors) == IF errors > 0 THEN "partial_success" ELSE "success"

\* lines 239-271: one pass of the update loop, and the return after the last
SetFieldsUpdate(answer) ==
    /\ pc = "updating"
    /\ queue # <<>>
    /\ LET u == Head(queue)
           failed == Truthy(HaRequest(answer).error)
           errors == IF failed THEN nerr + 1 ELSE nerr
       IN /\ log' = Sent(u.service, u.entity_id, u.value, answer)
          /\ NoteFailure(answer)
          /\ nerr' = errors
          /\ queue' = Tail(queue)
          /\ IF Tail(queue) = <<>>
             THEN Return(SetFieldsResult(errors))
             ELSE UNCHANGED <<pc, result>>
    /\ UNCHANGED <<token, tool, args, states, target, slept>>

(***************************************************************************)
(* plant_care___full_status                                                *)
(***************************************************************************)
\* the plants that have an entity with the given key
PlantsWith(sts, key) ==
    {n \in Range(PlantOrder(sts)) : PlantEntity(sts, n, key) # NoEntity}

\* lines 222-249: GET /api/states, the plants and their watering entities
\* (the lists hold no "<plant> Add Manual Watering" button)
FullStatusBegin(answer, body) ==
    /\ pc = "idle"
    /\ tool' = "plant_care___full_status"
    /\ args' = <<>>
    /\ log' = Sent("GET /api/states", NoEntity, NONE, answer)
    /\ NoteFailure(answer)
    /\ UNCHANGED <<token, target, queue, nerr, slept>>
    /\ LET got == GetStates(answer, body)
           sts == body.items
           watering == PlantsWith(sts, "water_power")
                         \cup PlantsWith(sts, "manual_watering")
       IN IF got # "ok"
          THEN Return(got) /\ UNCHANGED states
          ELSE /\ states' = sts
               /\ IF watering = {}
                  THEN Return("success")
                  ELSE pc' = "history" /\ UNCHANGED result

\* lines 250-275: the history request, whose error is only skipped over
FullStatusHistory(answer) ==
    /\ pc = "history"
    /\ tool = "plant_care___full_status"
    /\ log' = Sent("GET /api/history/period", NoEntity, NONE, answer)
    /\ NoteFailure(answer)
    /\ IF PlantsWith(states, "manual_watering") # {}
       THEN pc' = "logbook" /\ UNCHANGED result
       ELSE Return("success")
    /\ UNCHANGED <<token, tool, args, states, target, queue, nerr, slept>>

\* lines 276-289 and 290-413: the logbook request, error skipped as well
FullStatusLogbook(answer) ==
    /\ pc = "logbook"
    /\ tool = "plant_care___full_status"
    /\ log' = Sent("GET /api/logbook/period", NoEntity, NONE, answer)
    /\ NoteFailure(answer)
    /\ Return("success")
    /\ UNCHANGED <<token, tool, args, states, target, queue, nerr, slept>>

(***************************************************************************)
(* plant_care___get_plant_history and analyze___get_plant_history          *)
(***************************************************************************)
HistoryTools == {"plant_care___get_plant_history", "analyze___get_plant_history"}

MainKeys ==
    {"moisture", "humidity", "air_temperature", "auto_watering_state",
     "manual_watering"}

\* the keys of PLANT_SUFFIXES
AllKeys ==
    MainKeys \cup
    {"moisture_source", "humidity_source", "air_temperature_source",
     "light_outlet", "water_outlet", "light_power", "water_power",
     "light_state", "humidifier_state", "humidifier_control",
     "humidifier_source", "watering_frequency_recommendation",
     "soil_moisture_recommendation", "air_temperature_recommendation",
     "air_humidity_recommendation", "other_recommendations", "todo_list"}

\* details.strip().lower() if details else "main", for the values tried
DetailsValue(details) ==
    CASE details = "" -> "main"
      [] details = " FULL " -> "full"
      [] OTHER -> details

\* active_ids is not empty
HasActiveIds(sts, name, detailsValue) ==
    \E k \in (IF detailsValue = "full" THEN AllKeys ELSE MainKeys) :
        PlantEntity(sts, name, k) # NoEntity

\* lines 423-468
HistoryBegin(t, identifier, details, days, stepHours, answer, body) ==
    /\ pc = "idle"
    /\ t \in HistoryTools
    /\ tool' = t
    /\ args' = [identifier |-> identifier, details |-> details, days |-> days,
                step_hours |-> stepHours]
    /\ UNCHANGED <<token, queue, nerr, slept>>
    /\ IF days <= 0 \/ stepHours <= 0
          \/ DetailsValue(details) \notin {"main", "full"}
       THEN /\ Return("error")
            /\ UNCHANGED <<states, target, log, failSeen>>
       ELSE LET got == GetStates(answer, body)
                sts == body.items
                name == match_plant_name(PlantOrder(sts), identifier)
            IN /\ log' = Sent("GET /api/states", NoEntity, NONE, answer)
               /\ NoteFailure(answer)
               /\ IF got # "ok"
                  THEN /\ Return(got)
                       /\ UNCHANGED <<states, target>>
                  ELSE /\ states' = sts
                       /\ IF \/ name = NoName
                             \/ ~HasActiveIds(sts, name, DetailsValue(details))
                          THEN /\ Return("error")
                               /\ UNCHANGED target
                          ELSE /\ pc' = "history"
                               /\ target' = PlantEntity(sts, name, "manual_watering")
                               /\ UNCHANGED result

\* lines 470-497: the history request; a truthy error ends the call
HistoryFetch(answer) ==
    /\ pc = "history"
    /\ tool \in HistoryTools
    /\ log' = Sent("GET /api/history/period", NoEntity, NONE, answer)
    /\ NoteFailure(answer)
    /\ IF Truthy(HaRequest(answer).error)
       THEN Return("error")
       ELSE IF target # NoEntity
       THEN pc' = "logbook" /\ UNCHANGED result
       ELSE Return("success")
    /\ UNCHANGED <<token, tool, args, states, target, queue, nerr, slept>>

\* lines 498-589: the logbook request; its error is skipped over
HistoryLogbook(answer) ==
    /\ pc = "logbook"
    /\ tool \in HistoryTools
    /\ log' = Sent("GET /api/logbook/period", target, NONE, answer)
    /\ NoteFailure(answer)
    /\ Return("success")
    /\ UNCHANGED <<token, tool, args, states, target, queue, nerr, slept>>

(***************************************************************************)
(* automation___*                                                          *)
(***************************************************************************)
\* the outlet entities the plants name (lines 28-34)
Outlets(sts) ==
    { PlantValue(sts, n, k) : n \in Range(PlantOrder(sts)),
                              k \in {"light_outlet", "water_outlet"} }
      \ {NONE, "", "None"}

RECURSIVE AutomationIds(_)
\* attributes.id of the automation.* entries that have one (lines 39-48)
AutomationIds(sts) ==
    IF sts = <<>> THEN <<>>
    ELSE LET e == Head(sts)
         IN IF e.entity_id # NoEntity /\ DomainOf(e.entity_id) = "automation"
               /\ e.auto_id \notin {NONE, ""}
            THEN <<e.auto_id>> \o AutomationIds(Tail(sts))
            ELSE AutomationIds(Tail(sts))

\* automation.py lines 24-43
AutomationsBegin(answer, body) ==
    /\ pc = "idle"
    /\ tool' = "automation___get_all_by_device"
    /\ args' = <<>>
    /\ log' = Sent("GET /api/states", NoEntity, NONE, answer)
    /\ NoteFailure(answer)
    /\ UNCHANGED <<token, target, nerr, slept>>
    /\ LET got == GetStates(answer, body)
           sts == body.items
       IN IF got # "ok"
          THEN Return(got) /\ UNCHANGED <<states, queue>>
          ELSE /\ states' = sts
               /\ IF Outlets(sts) = {} \/ AutomationIds(sts) = <<>>
                  THEN Return("success") /\ UNCHANGED queue
                  ELSE /\ pc' = "configs"
                       /\ queue' = AutomationIds(sts)
                       /\ UNCHANGED result

\* lines 44-72: one automation's config; an error only skips the automation
AutomationsFetch(answer) ==
    /\ pc = "configs"
    /\ queue # <<>>
    /\ log' = Sent("GET /api/config/automation/config", NoEntity, Head(queue),
                   answer)
    /\ NoteFailure(answer)
    /\ queue' = Tail(queue)
    /\ IF Tail(queue) = <<>>
       THEN Return("success")
       ELSE UNCHANGED <<pc, result>>
    /\ UNCHANGED <<token, tool, args, states, target, nerr, slept>>

AutomationWriteTools ==
    {"automation___add_automation", "automation___remove_automation",
     "automation___set_automation_fields"}

\* lines 80-90, 95-104, 112-124: the checks of the arguments, then one
\* POST or DELETE of the automation's config
AutomationWrite(t, automationId, payloadOk, answer) ==
    /\ pc = "idle"
    /\ t \in AutomationWriteTools
    /\ tool' = t
    /\ args' = [automation_id |-> automationId, payload_ok |-> payloadOk]
    /\ UNCHANGED <<token, states, target, queue, nerr, slept>>
    /\ LET needsId == t # "automation___add_automation"
           needsPayload == t # "automation___remove_automation"
           method == IF t = "automation___remove_automation"
                     THEN "DELETE" ELSE "POST"
       IN IF \/ needsId /\ Strip(automationId) = <<>>
             \/ needsPayload /\ ~payloadOk
          THEN /\ Return("error")
               /\ UNCHANGED <<log, failSeen>>
          ELSE /\ log' = Sent(method, NoEntity, Strip(automationId), answer)
               /\ NoteFailure(answer)
               /\ IF Truthy(HaRequest(answer).error)
                  THEN Return("error")
                  ELSE Return("success")

(***************************************************************************)
(* The tool server: one tool call against Home Assistant.                  *)
(***************************************************************************)
ToolInit ==
    /\ tool = "idle"
    /\ pc = "idle"
    /\ args = <<>>
    /\ states = <<>>
    /\ target = NoEntity
    /\ queue = <<>>
    /\ nerr = 0
    /\ failSeen = FALSE
    /\ slept = 0
    /\ log = <<>>
    /\ result = NONE

MatchIdle == mNames = <<>> /\ mIdentifier = <<>> /\ mResult = NoName

HistIdle == hEntries = <<>> /\ hSorted = <<>> /\ hEvents = <<>>

HaIdle ==
    /\ cfg = <<>>
    /\ loaded = <<>>
    /\ store = <<>>
    /\ saves = 0
    /\ reloads = 0
    /\ registered = FALSE
    /\ nextId = 1
    /\ call = <<>>

EntIdle ==
    /\ ePlants = <<>>
    /\ eSaved = <<>>
    /\ eNumbers = FALSE
    /\ eNext = 1
    /\ eLast = <<>>

ProxyIdle ==
    /\ xLinks = <<>>
    /\ xStates = <<>>
    /\ xCalls = <<>>
    /\ xLast = <<>>
    /\ xSubs = <<>>
    /\ xWrote = <<>>

\* get_plant_history has not been called
PointsPending == [status |-> "pending", requests |-> 0, points |-> <<>>]

PointIdle ==
    /\ gIn = [days |-> 0, step_hours |-> 0, now |-> 0, sensor |-> <<>>,
              manual |-> <<>>]
    /\ gOut = PointsPending

OverlapIdle ==
    /\ oHeap = <<>>
    /\ oLoaded = 0
    /\ oCalls = <<>>

\* nothing has been parsed
NotParsed == [done |-> FALSE, plants |-> <<>>]

RoundIdle ==
    /\ rIn = [kind |-> NONE, plants |-> <<>>, items |-> <<>>]
    /\ rOut = NotParsed

FlowIdle ==
    /\ fEntries = <<>>
    /\ fFlows = <<>>

LaterIdle == PointIdle /\ OverlapIdle /\ RoundIdle /\ FlowIdle

MoreIdle == EntIdle /\ ProxyIdle /\ LaterIdle

Init ==
    /\ token \in BOOLEAN
    /\ ToolInit
    /\ MatchIdle
    /\ HistIdle
    /\ HaIdle
    /\ MoreIdle

Names == {<<"A", "a">>, <<" ">>}
DetailsInputs == {"main", " FULL ", "bad"}

\* a tool call leaves the other components alone
ToolFrame == UNCHANGED <<matchVars, histVars, haVars, moreVars>>

\* A tool is called (its first step, on inputs drawn from small sets), or a
\* call goes on from one await to the next.
Next ==
    \/ /\ pc = "idle"
       /\ \E t \in WaterTools, i \in Identifiers, d \in Durations,
             a \in Answers, b \in StatesBodies : WaterBegin(t, i, d, a, b)
       /\ ToolFrame
    \/ (\E a \in Answers : WaterTurnOn(a)) /\ ToolFrame
    \/ WaterSleep /\ ToolFrame
    \/ ProcessStops /\ ToolFrame
    \/ (\E a \in Answers : WaterTurnOff(a)) /\ ToolFrame
    \/ /\ pc = "idle"
       /\ \E n \in Names, a \in Answers : AddPlant(n, a)
       /\ ToolFrame
    \/ /\ pc = "idle"
       /\ \E t \in DOMAIN LookupTools, i \in Identifiers, a \in Answers,
             b \in StatesBodies : LookupBegin(t, i, a, b)
       /\ ToolFrame
    \/ (\E a \in Answers : LookupPost(a)) /\ ToolFrame
    \/ /\ pc = "idle"
       /\ \E i \in Identifiers, a \in Answers, b \in StatesBodies :
             GetFieldsInfo(i, a, b)
       /\ ToolFrame
    \/ /\ pc = "idle"
       /\ \E i \in Identifiers, f \in FieldLists, a \in Answers,
             b \in StatesBodies : SetFieldsBegin(i, f, a, b)
       /\ ToolFrame
    \/ (\E a \in Answers : SetFieldsUpdate(a)) /\ ToolFrame
    \/ /\ pc = "idle"
       /\ \E a \in Answers, b \in StatesBodies : FullStatusBegin(a, b)
       /\ ToolFrame
    \/ (\E a \in Answers : FullStatusHistory(a)) /\ ToolFrame
    \/ (\E a \in Answers : FullStatusLogbook(a)) /\ ToolFrame
    \/ /\ pc = "idle"
       /\ \E t \in HistoryTools, i \in Identifiers, d \in DetailsInputs,
             days \in 0..1, st \in 0..1, a \in Answers, b \in StatesBodies :
             HistoryBegin(t, i, d, days, st, a, b)
       /\ ToolFrame
    \/ (\E a \in Answers : HistoryFetch(a)) /\ ToolFrame
    \/ (\E a \in Answers : HistoryLogbook(a)) /\ ToolFrame
    \/ /\ pc = "idle"
       /\ \E a \in Answers, b \in StatesBodies : AutomationsBegin(a, b)
       /\ ToolFrame
    \/ (\E a \in Answers : AutomationsFetch(a)) /\ ToolFrame
    \/ /\ pc = "idle"
       /\ \E t \in AutomationWriteTools, i \in Names, ok \in BOOLEAN,
             a \in Answers : AutomationWrite(t, i, ok, a)
       /\ ToolFrame

Spec == Init /\ [][Next]_vars

(***************************************************************************)
(* Properties of the tool server (specification Spec).                     *)
(***************************************************************************)
\* the positions in the log of the requests with the given path
Requests(path) == {i \in 1..Len(log) : log[i].path = path}

\* Home Assistant took the request: it answered with a status below 400
Accepted(i) == ~Failed(log[i].answer)

\* Home Assistant answered the request with a status >= 400
HttpError(i) == log[i].answer \in {"http_error_text", "http_error_empty"}

\* C1: every tool call that returns gives status "error" or "success", and
\* no exception reaches the caller (a call that raised ends with "raised").
C1_StatusErrorOrSuccess ==
    pc = "done" => result \in {"error", "success"}

\* C2: a water call that returns "success" sent exactly one switch/turn_on
\* for the plant's watering entity, which Home Assistant accepted, waited
\* duration_seconds, then sent exactly one accepted switch/turn_off for the
\* same entity; and in every state a turn_off in the log comes after a
\* turn_on.
C2_SuccessMeansOnWaitOff ==
    /\ \A j \in Requests("switch/turn_off") :
          \E i \in Requests("switch/turn_on") : i < j
    /\ (tool \in WaterTools /\ pc = "done" /\ result = "success") =>
          /\ Cardinality(Requests("switch/turn_on")) = 1
          /\ Cardinality(Requests("switch/turn_off")) = 1
          /\ \A i \in Requests("switch/turn_on") \cup Requests("switch/turn_off") :
                log[i].entity = target /\ Accepted(i)
          /\ slept = args.duration_seconds

\* the service requests of C3
ServicePaths ==
    {"switch/turn_on", "switch/turn_off", "plants/add_plant",
     "plants/remove_plant", "POST", "DELETE"}

\* C3: a service request that Home Assistant answers with a status >= 400,
\* whatever the body, is the call's last request, and the call has returned
\* "error".
C3_HttpErrorEndsCall ==
    \A i \in 1..Len(log) :
        (log[i].path \in ServicePaths /\ HttpError(i)) =>
            /\ i = Len(log)
            /\ pc = "done"
            /\ result = "error"

\* the tools of C4
MultiRequestTools ==
    {"plant_care___full_status", "plant_care___get_plant_history",
     "analyze___get_plant_history", "manage___set_plant_fields",
     "automation___get_all_by_device"}

\* C4: in a tool that issues several requests, a failed request is the last
\* one sent and the call has returned "error".
C4_FirstFailureEndsCall ==
    \A i \in 1..Len(log) :
        (tool \in MultiRequestTools /\ Failed(log[i].answer)) =>
            /\ i = Len(log)
            /\ pc = "done"
            /\ result = "error"

\* C5: once the process has stopped during the delay, the log holds the
\* switch/turn_on the tool took as successful and no switch/turn_off: no
\* reachable state after the stop has one.
C5_StoppedSendsNoTurnOff ==
    pc = "stopped" =>
        /\ \E i \in Requests("switch/turn_on") :
              log[i].entity = target /\ ~Truthy(HaError(log[i].answer))
        /\ Requests("switch/turn_off") = {}

\* C5's case: the process stopped before the delay had ended.
C5_Witness ==
    /\ pc = "stopped"
    /\ slept < args.duration_seconds
    /\ Requests("switch/turn_on") # {}

\* C13: with HA_TOKEN unset or empty, every tool call returns status
\* "error" at once (it neither raises nor goes on to a later step) and no
\* HTTP request reaches Home Assistant.
C13_NoTokenNoRequest ==
    ~token =>
        /\ log = <<>>
        /\ pc \in {"idle", "done"}
        /\ pc = "done" => result = "error"

\* C13's case: without a token, a water call with a positive duration has
\* returned.
C13_Witness ==
    /\ ~token
    /\ pc = "done"
    /\ tool = "plant_care___water"
    /\ args.duration_seconds > 0

\* C17: plant_care___water sends switch/turn_on only when duration_seconds
\* is positive, the identifier matches a plant, the plant has a watering
\* control entity and that entity is in the states read with a state other
\* than "unavailable"; a call that returns without a turn_on returns
\* "error" and has sent no service request; and once a turn_on request has
\* failed the call returns "error" without waiting and without a turn_off.
C17_TurnOnOnlyWhenReady ==
    tool = "plant_care___water" =>
        LET name == match_plant_name(PlantOrder(states), args.identifier)
            switch == PlantEntity(states, name, "water_power")
            services == {i \in 1..Len(log) : log[i].path # "GET /api/states"}
        IN /\ Requests("switch/turn_on") # {} =>
                 /\ args.duration_seconds > 0
                 /\ name # NoName
                 /\ switch # NoEntity
                 /\ StateOf(states, switch) \notin {NONE, "unavailable"}
                 /\ \A i \in Requests("switch/turn_on") : log[i].entity = switch
           /\ (pc = "done" /\ Requests("switch/turn_on") = {}) =>
                 result = "error" /\ services = {}
           /\ (\E i \in Requests("switch/turn_on") : ~Accepted(i)) =>
                 /\ pc = "done"
                 /\ result = "error"
                 /\ slept = 0
                 /\ Requests("switch/turn_off") = {}

\* the entries of the snapshot that make eid a select or text entity of the
\* plant: its friendly name is "<name> <known suffix>" (the plant part read
\* as parse_plants_from_states reads it, without surrounding blanks)
FieldEntries(sts, name, eid) ==
    {j \in 1..Len(sts) :
        /\ eid # NoEntity
        /\ sts[j].entity_id = eid
        /\ DomainOf(eid) \in {"select", "text"}
        /\ sts[j].key # NONE
        /\ Strip(sts[j].plant) = name}

\* the update fails validation: no entity_id, no value, an entity that is
\* not an editable field of the plant, a select value outside the options
Invalid(sts, name, f) ==
    \/ f.entity_id = NoEntity
    \/ f.value = NONE
    \/ FieldEntries(sts, name, f.entity_id) = {}
    \/ /\ DomainOf(f.entity_id) = "select"
       /\ \A j \in FieldEntries(sts, name, f.entity_id) :
             f.value \notin Range(sts[j].options)

\* the write requests of a set_plant_fields call
Writes ==
    {i \in 1..Len(log) : log[i].path # "GET /api/states"}

\* C18: when manage___set_plant_fields has found the plant and at least one
\* entry of fields fails validation, the call returns "error" and sends no
\* select/select_option or text/set_value request, for the valid entries
\* neither.
C18_ValidatesAllBeforeWriting ==
    LET name == match_plant_name(PlantOrder(states), args.plant_name)
    IN (/\ tool = "manage___set_plant_fields"
        /\ name # NoName
        /\ \E i \in 1..Len(args.fields) : Invalid(states, name, args.fields[i]))
       => /\ pc = "done"
          /\ result = "error"
          /\ nerr = Cardinality({i \in 1..Len(args.fields) :
                                   Invalid(states, name, args.fields[i])})
          /\ Writes = {}

\* C18's case: a valid update followed by an invalid one, for a plant that
\* was found.
C18_Witness ==
    /\ tool = "manage___set_plant_fields"
    /\ pc = "done"
    /\ Len(args.fields) = 2
    /\ LET name == match_plant_name(PlantOrder(states), args.plant_name)
       IN /\ name # NoName
          /\ ~Invalid(states, name, args.fields[1])
          /\ Invalid(states, name, args.fields[2])

\* C19: every write request of manage___set_plant_fields is a
\* select/select_option to a select entity or a text/set_value to a text
\* entity that, in the states the call read, has the friendly name
\* "<matched plant name> <known suffix>"; a select is only set to one of
\* that entity's options.
C19_WritesOnlyPlantFields ==
    tool = "manage___set_plant_fields" =>
        LET name == match_plant_name(PlantOrder(states), args.plant_name)
        IN \A i \in Writes :
              /\ name # NoName
              /\ FieldEntries(states, name, log[i].entity) # {}
              /\ log[i].path =
                    (IF DomainOf(log[i].entity) = "select"
                     THEN "select/select_option" ELSE "text/set_value")
              /\ DomainOf(log[i].entity) = "select" =>
                    \E j \in FieldEntries(states, name, log[i].entity) :
                       log[i].value \in Range(states[j].options)

\* C19's case: a call wrote a select and a text field of the plant while
\* the snapshot also holds an entity of another plant.
C19_Witness ==
    /\ tool = "manage___set_plant_fields"
    /\ pc = "done"
    /\ Requests("select/select_option") # {}
    /\ Requests("text/set_value") # {}
    /\ \E j \in 1..Len(states) : states[j].plant = PlantB

(***************************************************************************)
(* match_plant_name on its own (specification SpecMatch): the names and    *)
(* the identifier are drawn from the short strings over Chars.             *)
(***************************************************************************)
Pending == <<"<pending>">>

NameLists ==
    LET S == StringsUpTo(MaxNameLen)
    IN {<<>>} \cup {<<n>> : n \in S} \cup {<<n, m>> : n \in S, m \in S}

MatchInit ==
    /\ token = TRUE
    /\ ToolInit
    /\ HistIdle
    /\ HaIdle
    /\ MoreIdle
    /\ mNames \in NameLists
    /\ mIdentifier \in StringsUpTo(MaxNameLen + 1)
    /\ mResult = Pending

\* match_plant_name(names, identifier) is called (common.py 97-108; the
\* copy _match_plant_name of plants.py 83-94 reads the same)
MatchCall ==
    /\ mResult = Pending
    /\ mResult' = match_plant_name(mNames, mIdentifier)
    /\ UNCHANGED <<mNames, mIdentifier, toolVars, histVars, haVars, moreVars>>

MatchNext == MatchCall

SpecMatch == MatchInit /\ [][MatchNext]_vars

\* s is t with blanks removed from both ends
IsStripped(s, t) ==
    /\ s = <<>> \/ (s[1] # " " /\ s[Len(s)] # " ")
    /\ \E i \in 0..Len(t) :
          /\ i + Len(s) <= Len(t)
          /\ \A k \in 1..Len(t) :
                IF k > i /\ k <= i + Len(s) THEN t[k] = s[k - i] ELSE t[k] = " "

\* C6: with c the identifier without its surrounding blanks, the result is
\* the name equal to c when there is one, else the first name whose
\* lower-cased form is that of c, else None; None for a blank identifier,
\* and a result other than None is one of the names.
C6_MatchCaseInsensitive ==
    mResult # Pending =>
      \E c \in StringsUpTo(MaxNameLen + 1) :
        /\ IsStripped(c, mIdentifier)
        /\ LET exact == {i \in 1..Len(mNames) : mNames[i] = c}
               lower == {i \in 1..Len(mNames) :
                           \A k \in 1..Len(c) :
                              /\ Len(mNames[i]) = Len(c)
                              /\ LowerChar(mNames[i][k]) = LowerChar(c[k])}
           IN /\ mResult # NoName => mResult \in Range(mNames)
              /\ c = <<>> => mResult = NoName
              /\ (c # <<>> /\ exact # {}) => mResult = c
              /\ (c # <<>> /\ exact = {} /\ lower # {}) =>
                    \E i \in lower : /\ mResult = mNames[i]
                                     /\ \A j \in lower : i <= j
              /\ (c # <<>> /\ exact = {} /\ lower = {}) => mResult = NoName

\* C6's case: the identifier has a surrounding blank and differs in case
\* from the second of two names with the same lower-cased form.
C6_Witness ==
    /\ mResult # Pending
    /\ mResult # NoName
    /\ mResult # Strip(mIdentifier)
    /\ Len(mNames) = 2
    /\ mResult = mNames[1]
    /\ mNames[1] # mNames[2]
    /\ Lower(mNames[1]) = Lower(mNames[2])
    /\ Len(mIdentifier) > Len(mResult)

(***************************************************************************)
(* _build_auto_watering_events (specification SpecEvents).  A history      *)
(* entry is its state and its parsed timestamp: <<t>> with t in ticks      *)
(* (TicksPerSecond of them in a second), <<>> when last_changed and        *)
(* last_updated are missing or do not parse.                               *)
(***************************************************************************)
HistoryEntries ==
    [state : {"on", "off"}, ts : {<<>>} \cup {<<t>> : t \in 0..MaxTime}]

RECURSIVE SeqsUpTo(_, _)
SeqsUpTo(S, n) ==
    IF n = 0 THEN {<<>>}
    ELSE LET shorter == SeqsUpTo(S, n - 1)
         IN shorter \cup {Append(q, x) : q \in shorter, x \in S}

\* the sort key of an entry: its timestamp, datetime.min without one
SortKey(e) == IF e.ts = <<>> THEN -1 ELSE e.ts[1]

RECURSIVE InsertSorted(_, _)
\* sorted with e put after every element whose key is not greater
InsertSorted(sorted, e) ==
    IF sorted = <<>> THEN <<e>>
    ELSE IF SortKey(sorted[Len(sorted)]) <= SortKey(e) THEN Append(sorted, e)
    ELSE Append(InsertSorted(SubSeq(sorted, 1, Len(sorted) - 1), e),
                sorted[Len(sorted)])

RECURSIVE SortEntries(_)
\* entries.sort(key=...): a stable sort by timestamp
SortEntries(entries) ==
    IF entries = <<>> THEN <<>>
    ELSE InsertSorted(SortEntries(SubSeq(entries, 1, Len(entries) - 1)),
                      entries[Len(entries)])

\* int(delta.total_seconds()): whole seconds, rounded towards zero
WholeSeconds(ticks) ==
    IF ticks >= 0 THEN ticks \div TicksPerSecond
    ELSE -((-ticks) \div TicksPerSecond)

\* the loop body without `current_start = None` after an event is closed
AutoStepNoReset(acc, entry, kind) ==
    IF entry.ts = <<>> THEN acc
    ELSE IF entry.state = "on" /\ acc.current_start = <<>>
    THEN [acc EXCEPT !.current_start = entry.ts]
    ELSE IF entry.state # "on" /\ acc.current_start # <<>>
    THEN [acc EXCEPT !.events = Append(@,
             [type |-> kind, start |-> acc.current_start, end |-> entry.ts,
              duration_seconds |->
                  <<WholeSeconds(entry.ts[1] - acc.current_start[1])>>])]
    ELSE acc

\* one pass of the loop over the entries (plant_care.py 82-101)
AutoStep(acc, entry, kind) ==
    IF entry.ts = <<>> THEN acc
    ELSE IF entry.state = "on" /\ acc.current_start = <<>>
    THEN [acc EXCEPT !.current_start = entry.ts]
    ELSE IF entry.state # "on" /\ acc.current_start # <<>>
    THEN [events |-> Append(acc.events,
             [type |-> kind, start |-> acc.current_start, end |-> entry.ts,
              duration_seconds |->
                  <<WholeSeconds(entry.ts[1] - acc.current_start[1])>>]),
          current_start |-> <<>>]
    ELSE acc

RECURSIVE AutoLoop(_, _)
AutoLoop(entries, kind) ==
    IF entries = <<>> THEN [events |-> <<>>, current_start |-> <<>>]
    ELSE AutoStep(AutoLoop(SubSeq(entries, 1, Len(entries) - 1), kind),
                  entries[Len(entries)], kind)

\* _build_auto_watering_events(entries, kind)
BuildAutoWateringEvents(entries, kind) ==
    LET acc == AutoLoop(entries, kind)
    IN IF acc.current_start # <<>>
       THEN Append(acc.events,
                [type |-> kind, start |-> acc.current_start, end |-> <<>>,
                 duration_seconds |-> <<>>])
       ELSE acc.events

\* the value of hEvents before the events are built
NotBuilt ==
    <<[type |-> "pending", start |-> <<>>, end |-> <<>>,
       duration_seconds |-> <<>>]>>

EventsInit ==
    /\ token = TRUE
    /\ ToolInit
    /\ MatchIdle
    /\ HaIdle
    /\ MoreIdle
    /\ hEntries \in SeqsUpTo(HistoryEntries, MaxEntries)
    /\ hSorted = <<>>
    /\ hEvents = NotBuilt

\* The history of the auto-watering switch is sorted by time and turned
\* into events (plant_care.py 488-494 and 527-530, analyze.py 285-289).
BuildEvents ==
    /\ hEvents = NotBuilt
    /\ hSorted' = SortEntries(hEntries)
    /\ hEvents' = BuildAutoWateringEvents(SortEntries(hEntries), "auto")
    /\ UNCHANGED <<hEntries, toolVars, matchVars, haVars, moreVars>>

EventsNext == BuildEvents

SpecEvents == EventsInit /\ [][EventsNext]_vars

\* the entries of the sorted history that carry a timestamp
Timed == SelectSeq(hSorted, LAMBDA e : e.ts # <<>>)

\* the positions in Timed where a maximal run of "on" entries begins
RunStarts ==
    {i \in 1..Len(Timed) :
        Timed[i].state = "on" /\ (i = 1 \/ Timed[i - 1].state # "on")}

\* the first position after i whose entry is not "on"; 0 when the run that
\* holds i is still open at the end
RunEnd(i) ==
    LET later == {j \in (i + 1)..Len(Timed) : Timed[j].state # "on"}
    IN IF later = {} THEN 0 ELSE CHOOSE j \in later : \A k \in later : j <= k

\* C7: over the time-ordered history (its entries that carry a timestamp)
\* there is exactly one event per maximal run of "on" entries, in order: a
\* run that begins at t0 and is ended by a non-"on" entry at t1 gives start
\* t0, end t1 and duration_seconds the whole seconds of t1 - t0, not
\* negative; a run still open at the end gives end None and
\* duration_seconds None, and is the last event.
C7_OneEventPerOnRun ==
    hEvents # NotBuilt =>
        /\ Len(hEvents) = Cardinality(RunStarts)
        /\ \A n \in 1..Len(hEvents) :
              \E i \in RunStarts :
                 /\ Cardinality({j \in RunStarts : j <= i}) = n
                 /\ hEvents[n].type = "auto"
                 /\ hEvents[n].start = Timed[i].ts
                 /\ IF RunEnd(i) = 0
                    THEN /\ hEvents[n].end = <<>>
                         /\ hEvents[n].duration_seconds = <<>>
                         /\ n = Len(hEvents)
                    ELSE LET t0 == Timed[i].ts[1]
                             t1 == Timed[RunEnd(i)].ts[1]
                         IN /\ hEvents[n].end = <<t1>>
                            /\ t1 >= t0
                            /\ \E d \in 0..MaxTime :
                                  /\ hEvents[n].duration_seconds = <<d>>
                                  /\ d * TicksPerSecond <= t1 - t0
                                  /\ t1 - t0 < (d + 1) * TicksPerSecond

\* C7's case: a run of two "on" entries closed a whole second or more
\* later, followed by a run that is still open.
C7_Witness ==
    /\ Len(hEvents) = 2
    /\ hEvents # NotBuilt
    /\ hEvents[1].duration_seconds = <<1>>
    /\ hEvents[2].end = <<>>
    /\ Len(Timed) > 3
    /\ Timed[1].state = "on"
    /\ Timed[2].state = "on"
    /\ hSorted # hEntries

(***************************************************************************)
(* The Home Assistant integration (specification SpecHA).                  *)
(*                                                                         *)
(* PlantsData is [plants, lamps]: two dicts in insertion order, written as *)
(* sequences of records keyed by plant_id and lamp_id.  A plant carries    *)
(* the fields the modelled operations set (the remaining links and         *)
(* recommendation texts are None on every path taken here).  The lamp      *)
(* half of PlantsData is not part of data.py as given; it follows the      *)
(* description of Lamp: id, name, outlet entity id, linked plant ids.      *)
(***************************************************************************)
DEFAULT_PLANTS == <<"Rose", "Tulip", "Aloe", "Basil">>

PlantsEntry == "p1"     \* the config entry of this integration
OtherEntry == "x1"      \* a config entry of another integration
EntryDomain(e) == IF e = PlantsEntry THEN "plants" ELSE "other"

EmptyMap == [e \in {} |-> e]
EmptyData == [plants |-> <<>>, lamps |-> <<>>]

\* str(uuid4()): the n-th fresh id
Uuid(n) == "u" \o ToString(n)

PlantIdsOf(data) == {data.plants[i].plant_id : i \in 1..Len(data.plants)}
LampIdsOf(data) == {data.lamps[i].lamp_id : i \in 1..Len(data.lamps)}

NewPlant(plant_id, name, moisture) ==
    [plant_id |-> plant_id, name |-> name, moisture_entity_id |-> moisture]

\* PlantsData.add_plant: a plant under a fresh id, at the end of the dict
DataAddPlant(data, n, name, moisture) ==
    [data EXCEPT !.plants = Append(@, NewPlant(Uuid(n), name, moisture))]

\* PlantsData.remove_plant: self.plants.pop(plant_id, None) is not None
DataRemovePlant(data, plant_id) ==
    [removed |-> plant_id \in PlantIdsOf(data),
     data |-> [data EXCEPT !.plants =
                  SelectSeq(@, LAMBDA p : p.plant_id # plant_id)]]

\* PlantsData.add_lamp
DataAddLamp(data, n, name, outlet, plant_ids) ==
    [data EXCEPT !.lamps = Append(@,
        [lamp_id |-> Uuid(n), name |-> name, outlet_entity_id |-> outlet,
         plant_ids |-> plant_ids])]

\* PlantsData.remove_lamp
DataRemoveLamp(data, lamp_id) ==
    [removed |-> lamp_id \in LampIdsOf(data),
     data |-> [data EXCEPT !.lamps =
                  SelectSeq(@, LAMBDA l : l.lamp_id # lamp_id)]]

\* PlantsData.link_lamp_plants
DataLinkLampPlants(data, lamp_id, plant_ids) ==
    [data EXCEPT !.lamps =
        [i \in 1..Len(@) |->
            IF @[i].lamp_id = lamp_id
            THEN [@[i] EXCEPT !.plant_ids = plant_ids] ELSE @[i]]]

\* PlantsData.set_lamp_outlet
DataSetLampOutlet(data, lamp_id, outlet) ==
    [data EXCEPT !.lamps =
        [i \in 1..Len(@) |->
            IF @[i].lamp_id = lamp_id
            THEN [@[i] EXCEPT !.outlet_entity_id = outlet] ELSE @[i]]]

\* the payload PlantsData.async_save hands to the store
Payload(data) ==
    [plants |-> [i \in 1..Len(data.plants) |->
                    [id |-> data.plants[i].plant_id,
                     name |-> data.plants[i].name,
                     moisture_entity_id |->
                         data.plants[i].moisture_entity_id]],
     lamps |-> [i \in 1..Len(data.lamps) |->
                    [id |-> data.lamps[i].lamp_id,
                     name |-> data.lamps[i].name,
                     outlet_entity_id |-> data.lamps[i].outlet_entity_id,
                     plant_ids |-> data.lamps[i].plant_ids]]]

\* str(item.get("id")): a missing id reads as the text "None"
Str(x) == IF x = NONE THEN "None" ELSE x

\* the last item stored under the key of item i (a later assignment to a
\* key replaces the value and keeps the key's place in the dict)
LastOfId(items, i) ==
    LET same == {j \in i..Len(items) : Str(items[j].id) = Str(items[i].id)}
    IN items[CHOOSE j \in same : \A k \in same : k <= j]

RECURSIVE ParsePlants(_, _)
\* PlantsData._parse_raw: an item whose id reads as "" is skipped, a
\* missing or empty name becomes the id
ParsePlants(items, i) ==
    IF i > Len(items) THEN <<>>
    ELSE IF \/ Str(items[i].id) = ""
            \/ \E j \in 1..(i - 1) : Str(items[j].id) = Str(items[i].id)
    THEN ParsePlants(items, i + 1)
    ELSE LET item == LastOfId(items, i)
         IN <<NewPlant(Str(item.id),
                       IF item.name \in {"", NONE}
                       THEN Str(item.id) ELSE item.name,
                       item.moisture_entity_id)>>
            \o ParsePlants(items, i + 1)

ParseLamps(items) ==
    [i \in 1..Len(items) |->
        [lamp_id |-> items[i].id, name |-> items[i].name,
         outlet_entity_id |-> items[i].outlet_entity_id,
         plant_ids |-> items[i].plant_ids]]

ParseRaw(raw) ==
    [plants |-> ParsePlants(raw.plants, 1), lamps |-> ParseLamps(raw.lamps)]

\* the plants async_load adds when the store holds none
DefaultPlants(n) ==
    [i \in 1..Len(DEFAULT_PLANTS) |->
        NewPlant(Uuid(n + i - 1), DEFAULT_PLANTS[i], NONE)]

RawOf(e) == IF e \in DOMAIN store THEN store[e] ELSE Payload(EmptyData)

\* PlantsData.async_load found no plant in the store of entry e
LoadsDefaults(e) == ParseRaw(RawOf(e)).plants = <<>>

\* the PlantsData that async_load returns for entry e
Loaded(e) ==
    IF LoadsDefaults(e)
    THEN [ParseRaw(RawOf(e)) EXCEPT !.plants = DefaultPlants(nextId)]
    ELSE ParseRaw(RawOf(e))

CallIdle ==
    [pc |-> "idle", op |-> NONE, entry_id |-> NONE, plant_id |-> NONE,
     lamp_id |-> NONE, plant_ids |-> <<>>, entry |-> NONE, error |-> NONE,
     data |-> EmptyData]

\* _resolve_entry(call.data): the config entry, or entry_not_found
ResolveEntry(entry_id) ==
    IF entry_id \notin {NONE, ""}
    THEN IF \E i \in 1..Len(cfg) : cfg[i] = entry_id
         THEN [entry |-> entry_id, error |-> NONE]
         ELSE [entry |-> NONE, error |-> "entry_not_found"]
    ELSE LET entries == SelectSeq(cfg, LAMBDA e : EntryDomain(e) = "plants")
         IN IF entries = <<>>
            THEN [entry |-> NONE, error |-> "entry_not_found"]
            ELSE [entry |-> entries[1], error |-> NONE]

\* the handler without its `if plant_id in data.plants`
KnownPlantIdsNoFilter(data, plant_ids) == plant_ids

\* [plant_id for plant_id in call.data.get("plant_ids", []) if plant_id in
\* data.plants]
KnownPlantIds(data, plant_ids) ==
    SelectSeq(plant_ids, LAMBDA p : p \in PlantIdsOf(data))

\* What a handler does with the entry's data before its first await: the
\* error it raises (NONE when it goes on to save), the data as it leaves
\* it, and the number of fresh ids it drew.
HandleAddPlant(data, inp) ==
    [error |-> NONE, data |-> DataAddPlant(data, nextId, inp.name, NONE),
     ids |-> 1]

\* _handle_remove_plant without the `if not removed` check
HandleRemovePlantNoCheck(data, inp) ==
    [error |-> NONE, data |-> DataRemovePlant(data, inp.plant_id).data,
     ids |-> 0]

HandleRemovePlant(data, inp) ==
    LET r == DataRemovePlant(data, inp.plant_id)
    IN IF ~r.removed
       THEN [error |-> "plant_not_found", data |-> r.data, ids |-> 0]
       ELSE [error |-> NONE, data |-> r.data, ids |-> 0]

HandleAddLamp(data, inp) ==
    [error |-> NONE,
     data |-> DataAddLamp(data, nextId, inp.name, inp.outlet,
                          KnownPlantIds(data, inp.plant_ids)),
     ids |-> 1]

HandleRemoveLamp(data, inp) ==
    LET r == DataRemoveLamp(data, inp.lamp_id)
    IN IF ~r.removed
       THEN [error |-> "lamp_not_found", data |-> r.data, ids |-> 0]
       ELSE [error |-> NONE, data |-> r.data, ids |-> 0]

HandleLinkLampPlants(data, inp) ==
    IF inp.lamp_id \notin LampIdsOf(data)
    THEN [error |-> "lamp_not_found", data |-> data, ids |-> 0]
    ELSE [error |-> NONE,
          data |-> DataLinkLampPlants(data, inp.lamp_id,
                                      KnownPlantIds(data, inp.plant_ids)),
          ids |-> 0]

HandleSetLampOutlet(data, inp) ==
    IF inp.lamp_id \notin LampIdsOf(data)
    THEN [error |-> "lamp_not_found", data |-> data, ids |-> 0]
    ELSE [error |-> NONE,
          data |-> DataSetLampOutlet(data, inp.lamp_id, inp.outlet),
          ids |-> 0]

Services ==
    {"add_plant", "remove_plant", "add_lamp", "remove_lamp",
     "link_lamp_plants", "set_lamp_outlet"}

Handle(op, data, inp) ==
    CASE op = "add_plant" -> HandleAddPlant(data, inp)
      [] op = "remove_plant" -> HandleRemovePlant(data, inp)
      [] op = "add_lamp" -> HandleAddLamp(data, inp)
      [] op = "remove_lamp" -> HandleRemoveLamp(data, inp)
      [] op = "link_lamp_plants" -> HandleLinkLampPlants(data, inp)
      [] op = "set_lamp_outlet" -> HandleSetLampOutlet(data, inp)

Without(map, e) == [x \in (DOMAIN map) \ {e} |-> map[x]]
With(map, e, v) == [x \in (DOMAIN map) \cup {e} |-> IF x = e THEN v ELSE map[x]]
InCfg(e) == \E i \in 1..Len(cfg) : cfg[i] = e

\* the inputs of the calls: entry ids, names, plant and lamp ids
EntryIdInputs == {NONE, PlantsEntry, OtherEntry, "zz"}
NameInputs == {"Fern"}
OutletInputs == {NONE, "switch.outlet"}
AllLoaded == {loaded[e] : e \in DOMAIN loaded}
PlantIdInputs == UNION {PlantIdsOf(d) : d \in AllLoaded} \cup {"nope"}
LampIdInputs == UNION {LampIdsOf(d) : d \in AllLoaded} \cup {"nope"}
LinkInputs == SeqsUpTo({Uuid(1), Uuid(2), "nope"}, MaxLinks)

NoInput ==
    [entry_id |-> NONE, name |-> "", plant_id |-> NONE, lamp_id |-> NONE,
     plant_ids |-> <<>>, outlet |-> NONE]

Inputs(op) ==
    CASE op = "add_plant" ->
           {[NoInput EXCEPT !.entry_id = e, !.name = n] :
              e \in EntryIdInputs, n \in NameInputs}
      [] op = "remove_plant" ->
           {[NoInput EXCEPT !.entry_id = e, !.plant_id = p] :
              e \in EntryIdInputs, p \in PlantIdInputs}
      [] op = "add_lamp" ->
           {[NoInput EXCEPT !.entry_id = e, !.name = "Lamp",
                            !.plant_ids = ps] :
              e \in EntryIdInputs, ps \in LinkInputs}
      [] op = "remove_lamp" ->
           {[NoInput EXCEPT !.entry_id = e, !.lamp_id = l] :
              e \in EntryIdInputs, l \in LampIdInputs}
      [] op = "link_lamp_plants" ->
           {[NoInput EXCEPT !.entry_id = e, !.lamp_id = l, !.plant_ids = ps] :
              e \in EntryIdInputs, l \in LampIdInputs, ps \in LinkInputs}
      [] op = "set_lamp_outlet" ->
           {[NoInput EXCEPT !.entry_id = e, !.lamp_id = l, !.outlet = o] :
              e \in EntryIdInputs, l \in LampIdInputs,
              o \in OutletInputs \ {NONE}}

\* a call that got past its checks, with the arguments it goes on with
Started(op, inp) ==
    [CallIdle EXCEPT !.op = op, !.entry_id = inp.entry_id,
                     !.plant_id = inp.plant_id, !.lamp_id = inp.lamp_id,
                     !.plant_ids = inp.plant_ids]

\* a call that raised: only the exception is left of it
Raised(op, error) == [CallIdle EXCEPT !.pc = "failed", !.op = op, !.error = error]

\* A plants.* service is called: the handler runs up to its first await
\* (__init__.py 105-206).  It resolves the entry, looks its data up in
\* hass.data, checks and changes the data, and then stands before
\* async_save; an exception ends the call.
ServiceCall(op, inp) ==
    /\ saves' = 0
    /\ reloads' = 0
    /\ LET r == ResolveEntry(inp.entry_id)
       IN IF r.error # NONE
          THEN /\ call' = Raised(op, r.error)
               /\ UNCHANGED <<loaded, nextId>>
          ELSE IF r.entry \notin DOMAIN loaded
          THEN /\ call' = Raised(op, "KeyError")
               /\ UNCHANGED <<loaded, nextId>>
          ELSE LET out == Handle(op, loaded[r.entry], inp)
               IN /\ nextId + out.ids - 1 <= MaxId
                  /\ Len(out.data.lamps) <= MaxLamps
                  /\ loaded' = [loaded EXCEPT ![r.entry] = out.data]
                  /\ nextId' = nextId + out.ids
                  /\ call' = IF out.error # NONE
                             THEN Raised(op, out.error)
                             ELSE [Started(op, inp) EXCEPT
                                      !.pc = "save", !.entry = r.entry,
                                      !.data = out.data]
    /\ UNCHANGED <<cfg, store, registered>>

\* The "remove plant" form of the options flow is submitted
\* (config_flow.py 93-105): the chosen plant is removed, saved and the
\* entry reloaded; a plant that is gone by now ends the flow at once.
FlowRemovePlant(plant_id) ==
    /\ InCfg(PlantsEntry)
    /\ saves' = 0
    /\ reloads' = 0
    /\ LET started == [CallIdle EXCEPT !.op = "flow_remove_plant",
                                       !.entry_id = PlantsEntry,
                                       !.entry = PlantsEntry,
                                       !.plant_id = plant_id]
       IN IF PlantsEntry \notin DOMAIN loaded
          THEN /\ call' = Raised("flow_remove_plant", "KeyError")
               /\ UNCHANGED loaded
          ELSE IF plant_id \in PlantIdsOf(loaded[PlantsEntry])
          THEN LET r == DataRemovePlant(loaded[PlantsEntry], plant_id)
               IN /\ loaded' = [loaded EXCEPT ![PlantsEntry] = r.data]
                  /\ call' = [started EXCEPT !.pc = "save", !.data = r.data]
          ELSE /\ call' = [CallIdle EXCEPT !.pc = "done",
                                             !.op = "flow_remove_plant"]
               /\ UNCHANGED loaded
    /\ UNCHANGED <<cfg, store, registered, nextId>>

\* await data.async_save()
CallSave ==
    /\ call.pc = "save"
    /\ store' = With(store, call.entry, Payload(call.data))
    /\ saves' = saves + 1
    /\ call' = [call EXCEPT !.pc = "unload"]
    /\ UNCHANGED <<cfg, loaded, reloads, registered, nextId>>

\* async_reload, first half: async_unload_entry takes the entry's data out
\* of hass.data (an entry deleted in the meantime cannot be reloaded)
CallUnload ==
    /\ call.pc = "unload"
    /\ reloads' = reloads + 1
    /\ IF InCfg(call.entry)
       THEN /\ loaded' = Without(loaded, call.entry)
            /\ call' = [call EXCEPT !.pc = "load"]
       ELSE /\ call' = Raised(call.op, "UnknownEntry")
            /\ UNCHANGED loaded
    /\ UNCHANGED <<cfg, store, saves, registered, nextId>>

\* async_setup_entry(entry): the data is loaded from the store (default
\* plants are added and saved when it holds none) and put into hass.data;
\* the services are registered on the first setup
SetupEntry(e) ==
    /\ LoadsDefaults(e) => nextId + Len(DEFAULT_PLANTS) - 1 <= MaxId
    /\ loaded' = With(loaded, e, Loaded(e))
    /\ IF LoadsDefaults(e)
       THEN /\ store' = With(store, e, Payload(Loaded(e)))
            /\ nextId' = nextId + Len(DEFAULT_PLANTS)
       ELSE UNCHANGED <<store, nextId>>
    /\ registered' = TRUE

\* async_reload, second half
CallLoad ==
    /\ call.pc = "load"
    /\ IF InCfg(call.entry)
       THEN /\ SetupEntry(call.entry)
            /\ saves' = IF LoadsDefaults(call.entry) THEN saves + 1 ELSE saves
            /\ call' = [call EXCEPT !.pc = "done"]
       ELSE /\ call' = Raised(call.op, "UnknownEntry")
            /\ UNCHANGED <<loaded, store, saves, nextId, registered>>
    /\ UNCHANGED <<cfg, reloads>>

\* the call returns to its caller
CallReturn ==
    /\ call.pc \in {"done", "failed"}
    /\ call' = CallIdle
    /\ saves' = 0
    /\ reloads' = 0
    /\ UNCHANGED <<cfg, loaded, store, registered, nextId>>

\* The user adds a config entry (of this or of another integration).
AddEntry(e) ==
    /\ ~InCfg(e)
    /\ cfg' = Append(cfg, e)
    /\ UNCHANGED <<loaded, store, saves, reloads, registered, nextId, call>>

\* Home Assistant sets up an entry of this integration that is not loaded.
EntrySetup(e) ==
    /\ InCfg(e)
    /\ EntryDomain(e) = "plants"
    /\ e \notin DOMAIN loaded
    /\ ~(call.pc = "load" /\ call.entry = e)
    /\ SetupEntry(e)
    /\ UNCHANGED <<cfg, saves, reloads, call>>

\* Home Assistant unloads an entry (the user disables or reloads it).
EntryUnload(e) ==
    /\ e \in DOMAIN loaded
    /\ loaded' = Without(loaded, e)
    /\ UNCHANGED <<cfg, store, saves, reloads, registered, nextId, call>>

\* The user deletes a config entry.
EntryRemove(e) ==
    /\ InCfg(e)
    /\ cfg' = SelectSeq(cfg, LAMBDA x : x # e)
    /\ loaded' = Without(loaded, e)
    /\ UNCHANGED <<store, saves, reloads, registered, nextId, call>>

\* the store before the first run, or as an earlier run left it
StoredPlant == [plants |-> <<NewPlant(Uuid(1), "Rose", NONE)>>, lamps |-> <<>>]

HAInit ==
    /\ token = TRUE
    /\ ToolInit
    /\ MatchIdle
    /\ HistIdle
    /\ MoreIdle
    /\ cfg = <<OtherEntry>>
    /\ loaded = EmptyMap
    /\ \/ store = EmptyMap /\ nextId = 1
       \/ store = With(EmptyMap, PlantsEntry, Payload(StoredPlant)) /\ nextId = 2
    /\ saves = 0
    /\ reloads = 0
    /\ registered = FALSE
    /\ call = CallIdle

HAFrame == UNCHANGED <<toolVars, matchVars, histVars, moreVars>>

HANext ==
    \/ /\ registered
       /\ call.pc = "idle"
       /\ \E op \in Services : \E inp \in Inputs(op) : ServiceCall(op, inp)
       /\ HAFrame
    \/ /\ call.pc = "idle"
       /\ \E p \in PlantIdInputs : FlowRemovePlant(p)
       /\ HAFrame
    \/ CallSave /\ HAFrame
    \/ CallUnload /\ HAFrame
    \/ CallLoad /\ HAFrame
    \/ CallReturn /\ HAFrame
    \/ AddEntry(PlantsEntry) /\ HAFrame
    \/ EntrySetup(PlantsEntry) /\ HAFrame
    \/ EntryUnload(PlantsEntry) /\ HAFrame
    \/ EntryRemove(PlantsEntry) /\ HAFrame

SpecHA == HAInit /\ [][HANext]_vars

\* the lamps among these that list plant p
LampsListing(lamps, p) ==
    {i \in 1..Len(lamps) :
        \E k \in 1..Len(lamps[i].plant_ids) : lamps[i].plant_ids[k] = p}

\* C8: once remove_plant(p) has succeeded (as a service call or from the
\* options flow), no lamp of the entry lists p in its plant_ids, neither in
\* memory nor in the saved payload.
C8_RemovedPlantUnlinked ==
    (/\ call.pc = "done"
     /\ call.op \in {"remove_plant", "flow_remove_plant"}
     /\ call.plant_id # NONE)
    => /\ LampsListing(call.data.lamps, call.plant_id) = {}
       /\ LampsListing(RawOf(call.entry).lamps, call.plant_id) = {}
       /\ call.entry \in DOMAIN loaded =>
             LampsListing(loaded[call.entry].lamps, call.plant_id) = {}

\* the call resolves to an entry whose data is loaded
Reaches(inp) ==
    /\ ResolveEntry(inp.entry_id).error = NONE
    /\ ResolveEntry(inp.entry_id).entry \in DOMAIN loaded

DataOf(inp) == loaded[ResolveEntry(inp.entry_id).entry]

\* the error a call is to raise for an identifier that is not found
NotFoundError(op, inp) ==
    IF ~Reaches(inp) THEN NONE
    ELSE IF op = "remove_plant" /\ inp.plant_id \notin PlantIdsOf(DataOf(inp))
    THEN "plant_not_found"
    ELSE IF /\ op \in {"remove_lamp", "link_lamp_plants", "set_lamp_outlet"}
            /\ inp.lamp_id \notin LampIdsOf(DataOf(inp))
    THEN "lamp_not_found"
    ELSE NONE

\* C9: a service call with an identifier that is not found raises
\* ServiceValidationError (plant_not_found for remove_plant, lamp_not_found
\* for remove_lamp, link_lamp_plants and set_lamp_outlet) and changes
\* nothing: the data in memory is as before, nothing is saved, the entry is
\* not reloaded, and the call does nothing further.
C9_NotFoundChangesNothing ==
    [][/\ (registered /\ call.pc = "idle" /\ call'.pc # "idle") =>
            \A op \in Services \cap {call'.op} : \A inp \in Inputs(op) :
               (NotFoundError(op, inp) # NONE /\ ServiceCall(op, inp))
               => /\ call' = Raised(op, NotFoundError(op, inp))
                  /\ UNCHANGED <<cfg, loaded, store, nextId, registered>>
                  /\ saves' = 0 /\ reloads' = 0
       /\ (call.pc = "failed"
             /\ call.error \in {"plant_not_found", "lamp_not_found"})
            => /\ call' \in {call, CallIdle}
               /\ saves' = 0 /\ reloads' = 0]_vars

\* C9's case: remove_plant of an unknown plant has failed on an entry that
\* holds plants and a lamp.
C9_Witness ==
    /\ call.pc = "failed"
    /\ call.op = "remove_plant"
    /\ call.error = "plant_not_found"
    /\ PlantsEntry \in DOMAIN loaded
    /\ loaded[PlantsEntry].plants # <<>>
    /\ loaded[PlantsEntry].lamps # <<>>

\* the entry_id names an entry of this integration whose data is loaded
IdentifiesLoaded(entry_id) ==
    /\ InCfg(entry_id)
    /\ EntryDomain(entry_id) = "plants"
    /\ entry_id \in DOMAIN loaded

\* C10: a service call whose entry_id does not identify a loaded Plants
\* entry (unknown, of another integration, unloaded or being reloaded), and
\* any call made while there is no Plants entry, fails with entry_not_found
\* and with nothing else.
C10_EntryNotFoundOnly ==
    [][(registered /\ call.pc = "idle" /\ call'.pc # "idle") =>
          \A op \in Services \cap {call'.op} : \A inp \in Inputs(op) :
             (/\ \/ inp.entry_id # NONE /\ ~IdentifiesLoaded(inp.entry_id)
                 \/ ~InCfg(PlantsEntry)
              /\ ServiceCall(op, inp))
             => call' = Raised(op, "entry_not_found")]_vars

\* the id of the lamp an add_lamp or link_lamp_plants call is about: the
\* lamp the call appended, or the lamp it names
CallLampId(c) ==
    IF c.op = "add_lamp" THEN c.data.lamps[Len(c.data.lamps)].lamp_id
    ELSE c.lamp_id

LampsWithId(lamps, lamp_id) ==
    {lamps[i] : i \in {j \in 1..Len(lamps) : lamps[j].lamp_id = lamp_id}}

\* the given plant ids that are keys of the plants, in the order given
GivenAndKnown(plant_ids, keys) == SelectSeq(plant_ids, LAMBDA p : p \in keys)

\* C20: when add_lamp or link_lamp_plants has completed, the plant_ids of
\* its lamp (in the handler's data, in the saved payload and in the
\* reloaded data) are the given ids that were keys of the entry's plants
\* when the call was made, in the order given; an id that is no such key is
\* dropped and does not make the call fail.
C20_LampLinksOnlyKnownPlants ==
    /\ [](/\ call.pc = "done"
           /\ call.op \in {"add_lamp", "link_lamp_plants"}
           => LET want == GivenAndKnown(call.plant_ids,
                                        PlantIdsOf(call.data))
                  id == CallLampId(call)
                  held == [h \in {"call", "store"} \cup
                                 (IF call.entry \in DOMAIN loaded
                                  THEN {"loaded"} ELSE {}) |->
                             CASE h = "call" -> call.data.lamps
                               [] h = "store" ->
                                    ParseLamps(RawOf(call.entry).lamps)
                               [] h = "loaded" -> loaded[call.entry].lamps]
              IN \A h \in DOMAIN held :
                    /\ LampsWithId(held[h], id) # {}
                    /\ \A l \in LampsWithId(held[h], id) :
                          l.plant_ids = want)
    /\ [][(/\ registered
            /\ call.pc = "idle"
            /\ call'.pc # "idle"
            /\ call'.op \in {"add_lamp", "link_lamp_plants"})
          => \A inp \in Inputs(call'.op) :
                (/\ Reaches(inp)
                 /\ NotFoundError(call'.op, inp) = NONE
                 /\ ServiceCall(call'.op, inp))
                => /\ call'.pc = "save"
                   /\ call'.plant_ids = inp.plant_ids
                   /\ PlantIdsOf(call'.data) = PlantIdsOf(DataOf(inp))
                   /\ \A l \in LampsWithId(call'.data.lamps,
                                            CallLampId(call')) :
                         l.plant_ids =
                            GivenAndKnown(inp.plant_ids,
                                          PlantIdsOf(DataOf(inp)))]_vars

\* C20's case: link_lamp_plants was given an unknown id before a known one
\* and has completed on an entry that holds two plants.
C20_Witness ==
    /\ call.pc = "done"
    /\ call.op = "link_lamp_plants"
    /\ call.plant_ids = <<"nope", Uuid(2)>>
    /\ PlantIdsOf(call.data) = {Uuid(1), Uuid(2)}
    /\ call.entry \in DOMAIN loaded
    /\ \E l \in LampsWithId(loaded[call.entry].lamps, call.lamp_id) :
          l.plant_ids = <<Uuid(2)>>

(***************************************************************************)
(* The entities of one loaded Plants entry (specification SpecEntities).   *)
(*                                                                         *)
(* PlantsData.plants is kept as the dict it is: (key, Plant) pairs in      *)
(* insertion order.  A Plant carries two of its entity links, one          *)
(* recommendation text, and the soil moisture and last-watered values the  *)
(* number and datetime entities read and write (number.py 83-91,           *)
(* datetime.py 49-52); an unset number or timestamp is <<>>.  data.py as   *)
(* given writes neither of the two to the store: that they are part of the *)
(* payload follows the description of the persisted Plant.                 *)
(***************************************************************************)
DEFAULT_SOIL_MOISTURE == 50
OPTION_NONE == "None"
MaxPlants == 2

LinkFields == {"light_entity_id", "moisture_entity_id"}
LinkOptions == {OPTION_NONE, "switch.plug"}
TextValues == {"repot"}
MoistureValues == {100}
TimeValues == {1}

\* Plant(plant_id=..., name=..., moisture_entity_id=..., <the rest None>)
EntPlant(plant_id, name, moisture) ==
    [plant_id |-> plant_id, name |-> name, moisture_entity_id |-> moisture,
     light_entity_id |-> NONE, todo_list |-> NONE,
     soil_moisture |-> <<>>, last_watered |-> <<>>]

Keys(plants) == {plants[i].key : i \in 1..Len(plants)}
PlantAt(plants, k) ==
    plants[CHOOSE i \in 1..Len(plants) : plants[i].key = k].plant

\* d[k] = v
DictSet(plants, k, v) ==
    IF k \in Keys(plants)
    THEN [i \in 1..Len(plants) |->
             IF plants[i].key = k THEN [key |-> k, plant |-> v] ELSE plants[i]]
    ELSE Append(plants, [key |-> k, plant |-> v])

\* d.pop(k, None)
DictPop(plants, k) == SelectSeq(plants, LAMBDA e : e.key # k)

\* add_plant stores the plant under an id that is not the plant's own
EntAddPlantOtherKey(plants, n, name, moisture) ==
    DictSet(plants, Uuid(n), EntPlant(Uuid(n + 1), name, moisture))

\* PlantsData.add_plant: plant_id = str(uuid4()); self.plants[plant_id] = plant
EntAddPlant(plants, n, name, moisture) ==
    DictSet(plants, Uuid(n), EntPlant(Uuid(n), name, moisture))

\* PlantsData.remove_plant
EntRemovePlant(plants, plant_id) == DictPop(plants, plant_id)

\* PlantsData.set_plant_light, set_plant_moisture, ...:
\* if plant_id in self.plants: self.plants[plant_id].<field> = entity_id
SetPlantLink(plants, plant_id, field, entity_id) ==
    IF plant_id \in Keys(plants)
    THEN [i \in 1..Len(plants) |->
             IF plants[i].key = plant_id
             THEN [plants[i] EXCEPT !.plant[field] = entity_id]
             ELSE plants[i]]
    ELSE plants

\* setattr(self._data.plants[self._plant_id], field, value), and the plain
\* attribute assignments of the number and datetime entities
SetAttr(plants, plant_id, field, value) ==
    [i \in 1..Len(plants) |->
        IF plants[i].key = plant_id
        THEN [plants[i] EXCEPT !.plant[field] = value]
        ELSE plants[i]]

\* the fields of a plant that async_save writes
SavedFields(plant) ==
    [id |-> plant.plant_id, name |-> plant.name,
     moisture_entity_id |-> plant.moisture_entity_id,
     light_entity_id |-> plant.light_entity_id,
     todo_list |-> plant.todo_list]

\* the soil moisture and the last-watered timestamp in the payload
SavedNumbers(plant) ==
    [soil_moisture |-> plant.soil_moisture,
     last_watered |-> plant.last_watered]

\* PlantsData.async_save: one item per plant of self.plants.values()
EntPayload(plants) ==
    [i \in 1..Len(plants) |->
        [fields |-> SavedFields(plants[i].plant),
         numbers |-> SavedNumbers(plants[i].plant)]]

\* PlantsData._parse_raw: plant_id = str(item.get("id")), then
\* plants[plant_id] = Plant(plant_id=plant_id, ...)
RECURSIVE EntParse(_)
EntParse(items) ==
    IF items = <<>> THEN <<>>
    ELSE LET item == items[Len(items)]
             plant_id == Str(item.fields.id)
         IN DictSet(EntParse(SubSeq(items, 1, Len(items) - 1)), plant_id,
                [plant_id |-> plant_id,
                 name |-> item.fields.name,
                 moisture_entity_id |-> item.fields.moisture_entity_id,
                 light_entity_id |-> item.fields.light_entity_id,
                 todo_list |-> item.fields.todo_list,
                 soil_moisture |-> item.numbers.soil_moisture,
                 last_watered |-> item.numbers.last_watered])

\* PlantSoilMoistureNumber.__init__ for every plant of data.plants:
\* if plant.soil_moisture is None: plant.soil_moisture = DEFAULT_SOIL_MOISTURE
FillDefaults(plants) ==
    [i \in 1..Len(plants) |->
        IF plants[i].plant.soil_moisture = <<>>
        THEN [plants[i] EXCEPT !.plant.soil_moisture = <<DEFAULT_SOIL_MOISTURE>>]
        ELSE plants[i]]

\* number.async_setup_entry: the number entities are constructed; nothing
\* is saved
NumberSetupEntry ==
    /\ ~eNumbers
    /\ ePlants' = FillDefaults(ePlants)
    /\ eNumbers' = TRUE
    /\ eLast' = "number_setup"
    /\ UNCHANGED <<eSaved, eNext>>

\* Plant<Link>Select.async_select_option(option)
SelectOption(field, plant_id, option) ==
    LET entity_id == IF option = OPTION_NONE THEN NONE ELSE option
        plants == SetPlantLink(ePlants, plant_id, field, entity_id)
    IN /\ plant_id \in Keys(ePlants)
       /\ ePlants' = plants
       /\ eSaved' = EntPayload(plants)
       /\ eLast' = "select_option"
       /\ UNCHANGED <<eNumbers, eNext>>

\* PlantRecommendationText.async_set_value(value), field todo_list
TextSetValue(plant_id, value) ==
    LET plants == SetAttr(ePlants, plant_id, "todo_list", value)
    IN /\ plant_id \in Keys(ePlants)
       /\ ePlants' = plants
       /\ eSaved' = EntPayload(plants)
       /\ eLast' = "text_set_value"
       /\ UNCHANGED <<eNumbers, eNext>>

\* PlantSoilMoistureNumber.async_set_value(value)
NumberSetValue(plant_id, value) ==
    LET plants == SetAttr(ePlants, plant_id, "soil_moisture", <<value>>)
    IN /\ eNumbers
       /\ plant_id \in Keys(ePlants)
       /\ ePlants' = plants
       /\ eSaved' = EntPayload(plants)
       /\ eLast' = "number_set_value"
       /\ UNCHANGED <<eNumbers, eNext>>

\* PlantLastWateredDateTime.async_set_value(value)
DateTimeSetValue(plant_id, value) ==
    LET plants == SetAttr(ePlants, plant_id, "last_watered", <<value>>)
    IN /\ plant_id \in Keys(ePlants)
       /\ ePlants' = plants
       /\ eSaved' = EntPayload(plants)
       /\ eLast' = "datetime_set_value"
       /\ UNCHANGED <<eNumbers, eNext>>

\* the options flow's add_plant step: add, save, reload the entry (the
\* reload loads the data from the store again and sets the platforms up
\* anew)
OptionsAddPlant(name, moisture) ==
    LET plants == EntAddPlant(ePlants, eNext, name, moisture)
    IN /\ Len(ePlants) < MaxPlants
       /\ eNext <= MaxId
       /\ eSaved' = EntPayload(plants)
       /\ ePlants' = EntParse(EntPayload(plants))
       /\ eNumbers' = FALSE
       /\ eNext' = eNext + 1
       /\ eLast' = "add_plant"

\* the options flow's remove_plant step, for the plant the label names
OptionsRemovePlant(plant_id) ==
    LET plants == EntRemovePlant(ePlants, plant_id)
    IN /\ plant_id \in Keys(ePlants)
       /\ eSaved' = EntPayload(plants)
       /\ ePlants' = EntParse(EntPayload(plants))
       /\ eNumbers' = FALSE
       /\ eLast' = "remove_plant"
       /\ UNCHANGED eNext

\* the entry has been loaded from a store that holds one plant, saved
\* either before or after its soil moisture was set
EntInit ==
    /\ token = TRUE
    /\ ToolInit
    /\ MatchIdle
    /\ HistIdle
    /\ HaIdle
    /\ ProxyIdle
    /\ LaterIdle
    /\ \E m \in {<<>>, <<100>>} :
          eSaved = EntPayload(<<[key |-> Uuid(1),
                     plant |-> [EntPlant(Uuid(1), "Rose", NONE)
                                   EXCEPT !.soil_moisture = m]]>>)
    /\ ePlants = EntParse(eSaved)
    /\ eNumbers = FALSE
    /\ eNext = 2
    /\ eLast = "load"

EntFrame ==
    UNCHANGED <<toolVars, matchVars, histVars, haVars, proxyVars, laterVars>>

EntNext ==
    \/ NumberSetupEntry /\ EntFrame
    \/ /\ \E f \in LinkFields, k \in Keys(ePlants), o \in LinkOptions :
             SelectOption(f, k, o)
       /\ EntFrame
    \/ /\ \E k \in Keys(ePlants), v \in TextValues : TextSetValue(k, v)
       /\ EntFrame
    \/ /\ \E k \in Keys(ePlants), v \in MoistureValues : NumberSetValue(k, v)
       /\ EntFrame
    \/ /\ \E k \in Keys(ePlants), v \in TimeValues : DateTimeSetValue(k, v)
       /\ EntFrame
    \/ /\ \E n \in NameInputs, m \in {NONE, "sensor.soil"} :
             OptionsAddPlant(n, m)
       /\ EntFrame
    \/ /\ \E k \in Keys(ePlants) : OptionsRemovePlant(k)
       /\ EntFrame

SpecEntities == EntInit /\ [][EntNext]_vars

\* C11: after any completed operation that changed the in-memory plants (a
\* select's async_select_option, a text, number or datetime async_set_value,
\* an options-flow step, the construction of the number entities), the
\* payload last written to the store equals the in-memory data.
C11_SavedOnEveryMutation ==
    [][ePlants' # ePlants => eSaved' = EntPayload(ePlants')]_vars

\* C12: in every reachable state each key k of PlantsData.plants maps to a
\* Plant whose plant_id is k and no key occurs twice; and add_plant adds
\* exactly one new key and leaves every plant that was there unchanged.
C12_PlantIdsUniqueAndConsistent ==
    /\ [](/\ \A i \in 1..Len(ePlants) : ePlants[i].plant.plant_id = ePlants[i].key
          /\ Cardinality(Keys(ePlants)) = Len(ePlants))
    /\ [][eNext' # eNext =>
            \E k \in Keys(ePlants') \ Keys(ePlants) :
               /\ Keys(ePlants') = Keys(ePlants) \cup {k}
               /\ \A j \in Keys(ePlants) :
                     PlantAt(ePlants', j) = PlantAt(ePlants, j)]_vars

\* C12's case: a plant was added next to one whose link had been set, after
\* an earlier plant had been removed.
C12_Witness ==
    /\ eLast = "add_plant"
    /\ Len(ePlants) = 2
    /\ ePlants[1].plant.light_entity_id = "switch.plug"
    /\ ePlants[1].key # Uuid(1)

(***************************************************************************)
(* The proxy entities of one plant (specification SpecProxy): the light,   *)
(* water and humidifier switches and the water valve, the selects that set *)
(* their outlets, and the outlets' states in Home Assistant.  An outlet    *)
(* is the pair <<domain, object>> of its entity id, NoEntity when the      *)
(* plant has none.                                                         *)
(***************************************************************************)
MaxCalls == 2

WATER_CONTROL_DOMAINS == {"valve", "switch"}
HUMIDIFIER_CONTROL_DOMAINS == {"switch", "input_boolean"}

ProxyKinds == {"light_switch", "water_switch", "water_valve",
               "humidifier_switch"}

\* the field of the plant a proxy reads its outlet from
LinkOf(kind) ==
    CASE kind = "light_switch" -> "light"
      [] kind \in {"water_switch", "water_valve"} -> "water"
      [] kind = "humidifier_switch" -> "humidifier"

\* the options of the plant's outlet selects besides "None": switches with a
\* plug label, valves, and switches or input booleans
OutletOptions(link) ==
    CASE link = "light" -> {<<"switch", "plug">>}
      [] link = "water" -> {<<"valve", "tap">>}
      [] link = "humidifier" -> {<<"input_boolean", "mist">>}

\* a water outlet of WATER_CONTROL_DOMAINS that the store may hold
StoredWaterOutlets == {NoEntity, <<"switch", "pump">>}

ProxyOutlets ==
    UNION {OutletOptions(l) : l \in {"light", "water", "humidifier"}}
        \cup (StoredWaterOutlets \ {NoEntity})

\* the states Home Assistant gives an entity of the domain
DomainStates(domain) ==
    IF domain = "valve" THEN {"open", "opening", "closed"}
    ELSE {"on", "off"}

\* _outlet_entity_id / _control_entity_id
Outlet(kind) == xLinks[LinkOf(kind)]

\* self.hass.states.get(outlet): "absent" stands for None
HassState(outlet) == xStates[outlet]

\* the available property of each proxy
Available(kind) ==
    LET outlet == Outlet(kind)
    IN CASE kind \in {"light_switch", "water_valve"} ->
              outlet # NoEntity /\ HassState(outlet) # "absent"
         [] kind = "water_switch" ->
              /\ outlet # NoEntity
              /\ DomainOf(outlet) \in WATER_CONTROL_DOMAINS
              /\ HassState(outlet) # "absent"
         [] kind = "humidifier_switch" ->
              /\ outlet # NoEntity
              /\ DomainOf(outlet) \in HUMIDIFIER_CONTROL_DOMAINS
              /\ HassState(outlet) # "absent"

\* is_on of the switches and is_open of the valve: "yes", "no", or
\* "unknown" for the valve's None
IsOn(kind) ==
    LET outlet == Outlet(kind)
        yes(b) == IF b THEN "yes" ELSE "no"
    IN CASE kind \in {"light_switch", "humidifier_switch"} ->
              IF outlet = NoEntity THEN "no"
              ELSE IF HassState(outlet) = "absent" THEN "no"
              ELSE yes(HassState(outlet) = "on")
         [] kind = "water_switch" ->
              IF outlet = NoEntity THEN "no"
              ELSE IF HassState(outlet) = "absent" THEN "no"
              ELSE yes(HassState(outlet) \in {"on", "open", "opening"})
         [] kind = "water_valve" ->
              IF outlet = NoEntity THEN "unknown"
              ELSE IF HassState(outlet) = "absent" THEN "unknown"
              ELSE yes(HassState(outlet) \in {"open", "opening", "on"})

ServiceCallTo(domain, service, outlet) ==
    <<[domain |-> domain, service |-> service, entity_id |-> outlet]>>

\* a water proxy that calls turn_on/turn_off whatever the outlet's domain
ProxyCallsNoValveService(kind, on) ==
    LET outlet == Outlet(kind)
    IN IF outlet = NoEntity THEN <<>>
       ELSE IF kind = "humidifier_switch"
                  /\ DomainOf(outlet) \notin HUMIDIFIER_CONTROL_DOMAINS
       THEN <<>>
       ELSE ServiceCallTo(DomainOf(outlet),
                          IF on THEN "turn_on" ELSE "turn_off", outlet)

\* async_turn_on / async_turn_off of the switches, async_open_valve /
\* async_close_valve of the valve: the service calls they make
ProxyCalls(kind, on) ==
    LET outlet == Outlet(kind)
    IN IF outlet = NoEntity THEN <<>>
       ELSE CASE kind = "light_switch" ->
                   ServiceCallTo(DomainOf(outlet),
                       IF on THEN "turn_on" ELSE "turn_off", outlet)
              [] kind \in {"water_switch", "water_valve"} ->
                   ServiceCallTo(DomainOf(outlet),
                       IF DomainOf(outlet) = "valve"
                       THEN (IF on THEN "open_valve" ELSE "close_valve")
                       ELSE (IF on THEN "turn_on" ELSE "turn_off"),
                       outlet)
              [] kind = "humidifier_switch" ->
                   IF DomainOf(outlet) \notin HUMIDIFIER_CONTROL_DOMAINS
                   THEN <<>>
                   ELSE ServiceCallTo(DomainOf(outlet),
                            IF on THEN "turn_on" ELSE "turn_off", outlet)

NoCommand == [kind |-> NONE, on |-> FALSE, outlet |-> NoEntity, before |-> 0]

\* no proxy wrote its state
NoWrite == {}

\* async_added_to_hass: a proxy with an outlet tracks the state changes of
\* that outlet
Tracked(kind) == Outlet(kind)

\* the proxies whose _handle_state_change runs for a state change of the
\* outlet: async_write_ha_state
Driven(outlet) == {k \in ProxyKinds : xSubs[k] = outlet}

\* a proxy is turned on or off (opened or closed)
ProxyCommand(kind, on) ==
    /\ Len(xCalls) < MaxCalls
    /\ xCalls' = xCalls \o ProxyCalls(kind, on)
    /\ xLast' = [kind |-> kind, on |-> on, outlet |-> Outlet(kind),
                 before |-> Len(xCalls)]
    /\ xWrote' = NoWrite
    /\ UNCHANGED <<xLinks, xStates, xSubs>>

\* the outlet select of the plant is set: set_plant_light, set_plant_water,
\* set_plant_humidifier with None for the option "None"
ProxySelectOption(link, option) ==
    /\ xLinks' = [xLinks EXCEPT ![link] = option]
    /\ xWrote' = NoWrite
    /\ UNCHANGED <<xStates, xCalls, xLast, xSubs>>

\* Home Assistant: an outlet changes state, appears or goes away
OutletChanges(outlet, state) ==
    /\ xStates[outlet] # state
    /\ xStates' = [xStates EXCEPT ![outlet] = state]
    /\ xWrote' = Driven(outlet)
    /\ UNCHANGED <<xLinks, xCalls, xLast, xSubs>>

ProxyInit ==
    /\ token = TRUE
    /\ ToolInit
    /\ MatchIdle
    /\ HistIdle
    /\ HaIdle
    /\ EntIdle
    /\ LaterIdle
    /\ \E w \in StoredWaterOutlets :
          xLinks = [light |-> NoEntity, water |-> w, humidifier |-> NoEntity]
    /\ xStates = [o \in ProxyOutlets |-> "absent"]
    /\ xCalls = <<>>
    /\ xLast = NoCommand
    /\ xSubs = [k \in ProxyKinds |-> Tracked(k)]
    /\ xWrote = NoWrite

ProxyFrame ==
    UNCHANGED <<toolVars, matchVars, histVars, haVars, entVars, laterVars>>

ProxyNext ==
    \/ (\E k \in ProxyKinds, on \in BOOLEAN : ProxyCommand(k, on)) /\ ProxyFrame
    \/ /\ \E l \in {"light", "water", "humidifier"} :
             \E o \in OutletOptions(l) \cup {NoEntity} : ProxySelectOption(l, o)
       /\ ProxyFrame
    \/ /\ \E o \in ProxyOutlets :
             \E st \in DomainStates(DomainOf(o)) \cup {"absent"} :
                OutletChanges(o, st)
       /\ ProxyFrame

SpecProxy == ProxyInit /\ [][ProxyNext]_vars

\* the outlet is on: a valve is open or opening, anything else is "on"
OutletActive(outlet) ==
    IF DomainOf(outlet) = "valve"
    THEN HassState(outlet) \in {"open", "opening"}
    ELSE HassState(outlet) = "on"

\* C14: a proxy switch or valve with no outlet linked reports not available
\* and not on, and a command to it makes no service call; with an outlet
\* linked, a command makes exactly one service call, in the outlet's domain
\* and addressed to the outlet, open_valve/close_valve for an outlet of the
\* valve domain and turn_on/turn_off otherwise; and the proxy reports on
\* exactly when the outlet's current state is on.
C14_ProxyForwardsToOutlet ==
    /\ \A k \in ProxyKinds :
          IF Outlet(k) = NoEntity
          THEN ~Available(k) /\ IsOn(k) # "yes"
          ELSE (IsOn(k) = "yes") <=> OutletActive(Outlet(k))
    /\ xLast.kind # NONE =>
          IF xLast.outlet = NoEntity
          THEN Len(xCalls) = xLast.before
          ELSE /\ Len(xCalls) = xLast.before + 1
               /\ xCalls[Len(xCalls)] =
                     [domain |-> DomainOf(xLast.outlet),
                      service |->
                          IF DomainOf(xLast.outlet) = "valve"
                          THEN (IF xLast.on THEN "open_valve" ELSE "close_valve")
                          ELSE (IF xLast.on THEN "turn_on" ELSE "turn_off"),
                      entity_id |-> xLast.outlet]

\* C14's case: the water switch was turned off while its outlet, a valve
\* that is open, was linked, and the plant has no light outlet.
C14_Witness ==
    /\ xLast.kind = "water_switch"
    /\ ~xLast.on
    /\ xLast.outlet = <<"valve", "tap">>
    /\ HassState(<<"valve", "tap">>) = "open"
    /\ Len(xCalls) = 1
    /\ xLinks.light = NoEntity

(***************************************************************************)
(* The config-entry based tools of mcp/tools/plants.py (specification      *)
(* SpecEntryTools): water_plant, delete_plant and edit_plant find a plant  *)
(* among the config entries of the domain "plants" and act on the entry    *)
(* or on its entities in the entity registry.  An entry id and a title     *)
(* are character sequences; an entity of the registry is kept as the       *)
(* triple <<domain, config_entry_id, suffix>> of its entity id.            *)
(***************************************************************************)
EntryTools == {"water_plant", "delete_plant", "edit_plant"}

ConfigEntry(entry_id, domain, title) ==
    [entry_id |-> entry_id, domain |-> domain, title |-> title]

\* what GET /api/config/config_entries/entries may hold
EntriesBodies ==
    {[kind |-> "not_list", items |-> <<>>],
     [kind |-> "list", items |-> <<>>],
     [kind |-> "list",
      items |-> <<ConfigEntry(<<"A">>, "other", <<"A">>),
                  ConfigEntry(<<"a", "A">>, "plants", <<"A", "a">>),
                  ConfigEntry(<<"A", "a">>, "plants", <<"a">>)>>]}

EntitySuffixes == {"_last_watered", "_soil_moisture", "_location_x",
                   "_location_y"}

EntityDomain(suffix) ==
    IF suffix = "_last_watered" THEN "datetime" ELSE "number"

\* the registry items of one entry, in the given order of suffixes
RegistryItems(entry_id, suffixes) ==
    [i \in 1..Len(suffixes) |->
        [config_entry_id |-> entry_id,
         entity_id |-> <<EntityDomain(suffixes[i]), entry_id, suffixes[i]>>]]

\* what GET /api/config/entity_registry/list may hold: every entity of both
\* plants, the soil moisture of each only, or none
RegistryBodies ==
    {[kind |-> "not_list", items |-> <<>>]} \cup
    {[kind |-> "list",
      items |-> RegistryItems(<<"A", "a">>, sfx) \o RegistryItems(<<"a", "A">>, sfx)] :
        sfx \in {<<>>, <<"_soil_moisture">>,
                 <<"_location_x", "_soil_moisture", "_last_watered",
                   "_location_y">>}}

\* _get_config_entries(domain): (entries, error)
GetConfigEntries(domain, answer, body) ==
    LET r == HaRequest(answer)
    IN IF Truthy(r.error) THEN [error |-> TRUE, entries |-> <<>>]
       ELSE IF ~r.json \/ body.kind # "list"
       THEN [error |-> TRUE, entries |-> <<>>]
       ELSE [error |-> FALSE,
             entries |-> SelectSeq(body.items, LAMBDA e : e.domain = domain)]

\* _get_entity_registry(): (registry, error)
GetEntityRegistry(answer, body) ==
    LET r == HaRequest(answer)
    IN IF Truthy(r.error) THEN [error |-> TRUE, registry |-> <<>>]
       ELSE IF ~r.json \/ body.kind # "list"
       THEN [error |-> TRUE, registry |-> <<>>]
       ELSE [error |-> FALSE, registry |-> body.items]

\* the first of the entries at the given positions, as <<entry>>; <<>> when
\* there is none
FirstAt(entries, hits) ==
    IF hits = {} THEN <<>>
    ELSE <<entries[CHOOSE i \in hits : \A j \in hits : i <= j]>>

\* _match_entry(entries, identifier) -> <<entry>> or <<>> for None
MatchEntry(entries, identifier) ==
    LET id == Strip(identifier)
        byId == FirstAt(entries,
                    {i \in 1..Len(entries) : entries[i].entry_id = id})
        byTitle == FirstAt(entries,
                    {i \in 1..Len(entries) :
                        Lower(entries[i].title) = Lower(id)})
    IN IF id = <<>> THEN <<>>
       ELSE IF byId # <<>> THEN byId
       ELSE byTitle

\* next((eid for eid in entity_ids if eid.endswith(suffix)), None) over the
\* registry items of the entry, as <<entity_id>> or <<>>
EntityOf(registry, entry_id, suffix) ==
    LET own == SelectSeq(registry, LAMBDA it : it.config_entry_id = entry_id)
        hits == SelectSeq(own, LAMBDA it : it.entity_id[3] = suffix)
    IN IF hits = <<>> THEN <<>> ELSE <<hits[1].entity_id>>

SetValue(entity, value) ==
    [path |-> EntityDomain(entity[3]) \o "/set_value", entity |-> entity,
     value |-> value]

\* the set_value requests water_plant (lines 188-205) and edit_plant (lines
\* 283-304) make once they hold the registry
EntryPosts(t, a, registry, entry_id) ==
    LET posts(suffix, value, wanted) ==
            IF wanted /\ EntityOf(registry, entry_id, suffix) # <<>>
            THEN <<SetValue(EntityOf(registry, entry_id, suffix)[1], value)>>
            ELSE <<>>
    IN IF t = "water_plant"
       THEN posts("_last_watered", "now", TRUE)
               \o posts("_soil_moisture", "100", TRUE)
       ELSE posts("_location_x", "x", a.location_x)
               \o posts("_location_y", "y", a.location_y)

\* lines 172-177, 235-240, 258-266: the config entries are read and the
\* identifier is matched
EntryToolBegin(t, identifier, new_name, lx, ly, answer, body) ==
    /\ pc = "idle"
    /\ t \in EntryTools
    /\ tool' = t
    /\ args' = [identifier |-> identifier, new_name |-> new_name,
                location_x |-> lx, location_y |-> ly]
    /\ log' = Sent("GET config_entries", NoEntity, NONE, answer)
    /\ NoteFailure(answer)
    /\ UNCHANGED <<token, queue, nerr, slept>>
    /\ LET got == GetConfigEntries("plants", answer, body)
           entry == MatchEntry(got.entries, identifier)
       IN IF got.error
          THEN Return("error") /\ UNCHANGED <<states, target>>
          ELSE /\ states' = got.entries
               /\ IF entry = <<>>
                  THEN Return("error") /\ UNCHANGED target
                  ELSE /\ target' = entry[1]
                       /\ IF t = "edit_plant" /\ Strip(new_name) = <<>>
                                /\ ~lx /\ ~ly
                          THEN Return("success")
                          ELSE /\ pc' = (IF t = "delete_plant" THEN "delete"
                                         ELSE IF t = "edit_plant"
                                                 /\ Strip(new_name) # <<>>
                                         THEN "patch"
                                         ELSE "registry")
                               /\ UNCHANGED result

\* delete_plant, lines 241-248
EntryDelete(answer) ==
    /\ pc = "delete"
    /\ tool = "delete_plant"
    /\ log' = Sent("DELETE config_entries/entry", target.entry_id, NONE, answer)
    /\ NoteFailure(answer)
    /\ IF Truthy(HaRequest(answer).error)
       THEN Return("error")
       ELSE Return("success")
    /\ UNCHANGED <<token, tool, args, states, target, queue, nerr, slept>>

\* edit_plant, lines 266-273: the title is patched; the error goes into
\* results and the call goes on
EntryPatch(answer) ==
    /\ pc = "patch"
    /\ tool = "edit_plant"
    /\ log' = Sent("PATCH config_entries/entry", target.entry_id,
                   Strip(args.new_name), answer)
    /\ NoteFailure(answer)
    /\ IF args.location_x \/ args.location_y
       THEN pc' = "registry" /\ UNCHANGED result
       ELSE Return("success")
    /\ UNCHANGED <<token, tool, args, states, target, queue, nerr, slept>>

\* water_plant lines 178-191 and edit_plant lines 274-282: the entity
\* registry is read and the entities of the entry are picked
EntryRegistry(answer, body) ==
    /\ pc = "registry"
    /\ tool \in {"water_plant", "edit_plant"}
    /\ log' = Sent("GET entity_registry", NoEntity, NONE, answer)
    /\ NoteFailure(answer)
    /\ LET got == GetEntityRegistry(answer, body)
           posts == EntryPosts(tool, args, got.registry, target.entry_id)
       IN IF got.error
          THEN Return("error") /\ UNCHANGED queue
          ELSE IF posts = <<>>
          THEN Return("success") /\ UNCHANGED queue
          ELSE pc' = "posting" /\ queue' = posts /\ UNCHANGED result
    /\ UNCHANGED <<token, tool, args, states, target, nerr, slept>>

\* one set_value request; its error goes into results and the call goes on
\* to return "success" (lines 192-206 and 283-305)
EntryPost(answer) ==
    /\ pc = "posting"
    /\ tool \in {"water_plant", "edit_plant"}
    /\ log' = Sent(queue[1].path, queue[1].entity, queue[1].value, answer)
    /\ NoteFailure(answer)
    /\ queue' = Tail(queue)
    /\ IF Tail(queue) = <<>>
       THEN Return("success")
       ELSE UNCHANGED <<pc, result>>
    /\ UNCHANGED <<token, tool, args, states, target, nerr, slept>>

NewNames == {<<>>, <<" ">>, <<"A">>}

EntryToolsNext ==
    \/ /\ pc = "idle"
       /\ \E t \in EntryTools \ {"edit_plant"}, i \in StringsUpTo(MaxNameLen),
             a \in Answers, b \in EntriesBodies :
             EntryToolBegin(t, i, <<>>, FALSE, FALSE, a, b)
       /\ ToolFrame
    \/ /\ pc = "idle"
       /\ \E i \in StringsUpTo(MaxNameLen), n \in NewNames, lx \in BOOLEAN,
             ly \in BOOLEAN, a \in Answers, b \in EntriesBodies :
             EntryToolBegin("edit_plant", i, n, lx, ly, a, b)
       /\ ToolFrame
    \/ (\E a \in Answers : EntryDelete(a)) /\ ToolFrame
    \/ (\E a \in Answers : EntryPatch(a)) /\ ToolFrame
    \/ (\E a \in Answers, b \in RegistryBodies : EntryRegistry(a, b)) /\ ToolFrame
    \/ (\E a \in Answers : EntryPost(a)) /\ ToolFrame

SpecEntryTools == Init /\ [][EntryToolsNext]_vars

\* C15: whenever the config-entry based water_plant returns "success" for a
\* plant, it has sent datetime/set_value with the current time to the
\* plant's _last_watered entity and number/set_value with 100 to its
\* _soil_moisture entity, and Home Assistant accepted both.
C15_WaterSetsWateredAndMoisture ==
    (tool = "water_plant" /\ pc = "done" /\ result = "success") =>
        \E i \in Requests("datetime/set_value"),
           j \in Requests("number/set_value") :
           /\ Accepted(i)
           /\ Accepted(j)
           /\ log[i].entity = <<"datetime", target.entry_id, "_last_watered">>
           /\ log[i].value = "now"
           /\ log[j].entity = <<"number", target.entry_id, "_soil_moisture">>
           /\ log[j].value = "100"

\* the requests of the call that change Home Assistant
Changing == {i \in 1..Len(log) : log[i].path \notin
                {"GET config_entries", "GET entity_registry"}}

\* C16: water_plant, delete_plant and edit_plant act on a plant only when
\* the identifier is its entry_id or its exact title: the entry whose
\* entry_id equals the identifier is the one acted on, before any title
\* match, and an identifier that is neither the entry_id nor the exact
\* title of a plants entry ends in an error with no changing request.
C16_EntryIdOrExactTitle ==
    (tool \in EntryTools /\ pc # "idle") =>
        LET ids == {states[i].entry_id : i \in 1..Len(states)}
            titles == {states[i].title : i \in 1..Len(states)}
        IN /\ args.identifier \in ids => target.entry_id = args.identifier
           /\ (args.identifier \notin ids /\ args.identifier \notin titles)
                 => /\ pc = "done"
                    /\ result = "error"
                    /\ Changing = {}

(***************************************************************************)
(* The points of get_plant_history (specification SpecPoints):             *)
(* plant_care___get_plant_history and analyze___get_plant_history for a    *)
(* plant with a soil moisture sensor and a manual watering entity, when    *)
(* Home Assistant answers every request.  Instants are counted in ticks    *)
(* (TicksPerSecond to the second) since the epoch; the clock and the       *)
(* timestamps of the history can fall between two whole seconds.           *)
(***************************************************************************)
MaxSensorEntries == 2
MaxManualEntries == 2

\* step_hours * 3600
HourSeconds == 3600
\* timedelta(days=days)
DaySeconds == 86400

\* datetime.now(timezone.utc): on a whole second, or a tick after one
PointNows ==
    {2 * DaySeconds * TicksPerSecond, 2 * DaySeconds * TicksPerSecond + 1}

\* the timestamps tried, as ticks before the clock
PointAges ==
    {1, 6 * HourSeconds * TicksPerSecond, 13 * HourSeconds * TicksPerSecond,
     30 * HourSeconds * TicksPerSecond}

PointEntries(now, sts) ==
    [state : sts, ts : {<<>>} \cup {<<now - a>> : a \in PointAges}]

PointInputs ==
    UNION {[days : {0, 1}, step_hours : {0, 12, 18}, now : {now},
            sensor : SeqsUpTo(PointEntries(now, {"40", "55"}),
                              MaxSensorEntries),
            manual : SeqsUpTo(PointEntries(now, {"watered"}),
                              MaxManualEntries)] : now \in PointNows}

\* history_window(days), in ticks
HistoryWindow(in) ==
    [start_time |-> in.now - in.days * DaySeconds * TicksPerSecond,
     end_time |-> in.now]

\* int(t.timestamp()) of an instant after the epoch
EpochOf(ticks) == ticks \div TicksPerSecond

RECURSIVE RangeDown(_, _, _)
\* range(from, stop, -step): from, from - step, ... as long as above stop
RangeDown(from, stop, step) ==
    IF from <= stop THEN <<>>
    ELSE <<from>> \o RangeDown(from - step, stop, step)

\* range(end_epoch, start_epoch - 1, -step_seconds)
PointEpochsOpen(in) ==
    RangeDown(EpochOf(HistoryWindow(in).end_time),
              EpochOf(HistoryWindow(in).start_time),
              in.step_hours * HourSeconds)

PointEpochs(in) ==
    RangeDown(EpochOf(HistoryWindow(in).end_time),
              EpochOf(HistoryWindow(in).start_time) - 1,
              in.step_hours * HourSeconds)

\* last_state_before(entries, timestamp): the loop stops at the first
\* entry without a timestamp or after the timestamp
LastStateBefore(entries, timestamp) ==
    LET stops == {i \in 1..Len(entries) :
                     \/ entries[i].ts = <<>>
                     \/ entries[i].ts[1] > timestamp}
        brk == IF stops = {} THEN Len(entries) + 1
               ELSE CHOOSE i \in stops : \A j \in stops : i <= j
    IN IF brk = 1 THEN <<>> ELSE <<entries[brk - 1]>>

\* _build_manual_watering_events(entries), for entries without event data
BuildManualWateringEvents(entries) ==
    LET kept == SelectSeq(entries,
                   LAMBDA e : e.ts # <<>> /\ e.state \notin {"unknown",
                                                             "unavailable"})
    IN [i \in 1..Len(kept) |->
           [type |-> "manual", start |-> kept[i].ts, end |-> <<>>,
            event |-> kept[i].state]]

\* _dedupe_events(events): the first of equal events is kept
DedupeEvents(events) ==
    LET first == {i \in 1..Len(events) :
                     \A j \in 1..(i - 1) : events[j] # events[i]}
        Nth(k) == CHOOSE i \in first :
                     Cardinality({j \in first : j <= i}) = k
    IN [k \in 1..Cardinality(first) |-> events[Nth(k)]]

RECURSIVE SortEvents(_)
\* events.sort(key=start): a stable sort
SortEvents(events) ==
    IF events = <<>> THEN <<>>
    ELSE LET n == Len(events)
             init == SortEvents(SubSeq(events, 1, n - 1))
             at == Cardinality({i \in 1..Len(init) :
                                   init[i].start[1] <= events[n].start[1]})
         IN SubSeq(init, 1, at) \o <<events[n]>>
            \o SubSeq(init, at + 1, Len(init))

\* overlaps = event_start < ts and (event_end is None or event_end >
\* period_start)
Overlaps(event, ts, period_start) ==
    /\ event.start[1] < ts
    /\ event.end = <<>> \/ event.end[1] > period_start

\* the point of one ts_epoch (plant_care.py 554-577)
PointAt(in, ts_epoch) ==
    LET ts == ts_epoch * TicksPerSecond
        period_start == ts - in.step_hours * HourSeconds * TicksPerSecond
        grouped == SortEntries(in.sensor)
        all_events == SortEvents(DedupeEvents(
                         BuildManualWateringEvents(SortEntries(in.manual))))
        entry == LastStateBefore(grouped, ts)
    IN [timestamp |-> ts,
        soil_moisture |-> IF entry = <<>> THEN <<>> ELSE <<entry[1].state>>,
        period_start |-> period_start,
        period_end |-> ts,
        watering_events |->
            SelectSeq(all_events, LAMBDA e : Overlaps(e, ts, period_start))]

Points(in) == [k \in 1..Len(PointEpochs(in)) |-> PointAt(in, PointEpochs(in)[k])]

\* The tool is called: it refuses days and step_hours that are not
\* positive before any request, and else reads the states, the history and
\* the logbook and builds the points (plant_care.py 423-589).
GetPlantHistory ==
    /\ gOut = PointsPending
    /\ gOut' = IF gIn.days <= 0 \/ gIn.step_hours <= 0
               THEN [status |-> "error", requests |-> 0, points |-> <<>>]
               ELSE [status |-> "success", requests |-> 3,
                     points |-> Points(gIn)]
    /\ UNCHANGED <<gIn, toolVars, matchVars, histVars, haVars, entVars,
                   proxyVars, overlapVars, roundVars, flowVars>>

PointsInit ==
    /\ token = TRUE
    /\ ToolInit
    /\ MatchIdle
    /\ HistIdle
    /\ HaIdle
    /\ EntIdle
    /\ ProxyIdle
    /\ OverlapIdle
    /\ RoundIdle
    /\ FlowIdle
    /\ gIn \in PointInputs
    /\ gOut = PointsPending

PointsNext == GetPlantHistory

SpecPoints == PointsInit /\ [][PointsNext]_vars

\* C21: in the result of get_plant_history a manual watering event (end =
\* None) is listed in the watering_events of a point only if its start lies
\* inside the point's period [period_start, period_end); hence each manual
\* event is reported in at most one point.
C21_ManualEventInOnePeriod ==
    gOut.status = "success" =>
        \A p \in Range(gOut.points) : \A e \in Range(p.watering_events) :
            (e.type = "manual" /\ e.end = <<>>)
            => p.period_start <= e.start[1] /\ e.start[1] < p.period_end

\* the entries of the sensor with a timestamp at or before the instant
AtOrBefore(entries, instant) ==
    {i \in 1..Len(entries) :
        entries[i].ts # <<>> /\ entries[i].ts[1] <= instant}

\* C22: every point reports for the sensor the state of the latest history
\* entry whose timestamp is at or before the point's timestamp, and None
\* only when there is no such entry, also when the history holds entries
\* without a usable timestamp.
C22_LatestStateAtPoint ==
    gOut.status = "success" =>
        \A p \in Range(gOut.points) :
            LET cands == AtOrBefore(gIn.sensor, p.timestamp)
            IN IF cands = {} THEN p.soil_moisture = <<>>
               ELSE \E i \in cands :
                       /\ \A j \in cands :
                             gIn.sensor[j].ts[1] <= gIn.sensor[i].ts[1]
                       /\ p.soil_moisture = <<gIn.sensor[i].state>>

\* the points are those of a grid that starts at `first` and goes back in
\* steps of step_hours, none of them outside [lowest, end of the window]
PointsOnGrid(first, lowest) ==
    LET w == HistoryWindow(gIn)
        step == gIn.step_hours * HourSeconds * TicksPerSecond
        n == Len(gOut.points)
    IN /\ gOut.status = "success"
       /\ n = (w.end_time - w.start_time) \div step + 1
       /\ \A k \in 1..n :
             /\ gOut.points[k].timestamp = first - (k - 1) * step
             /\ lowest <= gOut.points[k].timestamp
             /\ gOut.points[k].timestamp <= w.end_time
             /\ gOut.points[k].period_end = gOut.points[k].timestamp
             /\ gOut.points[k].period_start =
                   gOut.points[k].timestamp - step
       /\ \A k \in 1..(n - 1) :
             gOut.points[k + 1].timestamp < gOut.points[k].timestamp

\* days <= 0 or step_hours <= 0: "error", and no request was sent
RefusedUnsent ==
    (gIn.days <= 0 \/ gIn.step_hours <= 0)
    => gOut.status = "error" /\ gOut.requests = 0

MaxOverlap == 2

OverlapIdleCall ==
    [pc |-> "idle", op |-> NONE, ref |-> 0, plant |-> NONE, error |-> NONE]

\* the calls tried: add_plant by every caller, remove_plant of the stored
\* plant by the first
OverlapInputs(c) ==
    {[op |-> "add_plant", inp |-> [NoInput EXCEPT !.name = "Fern"]]} \cup
    (IF c = 1
     THEN {[op |-> "remove_plant",
            inp |-> [NoInput EXCEPT !.plant_id = Uuid(1)]]}
     ELSE {})

\* the handler up to its first await (__init__.py 123-145): the entry's
\* data is looked up in hass.data, changed, and the call stands before
\* async_save
OverlapCall(c, op, inp) ==
    /\ oCalls[c].pc = "idle"
    /\ LET e == ResolveEntry(inp.entry_id).entry
       IN IF e \notin DOMAIN loaded
          THEN /\ oCalls' = [oCalls EXCEPT ![c] =
                     [OverlapIdleCall EXCEPT !.pc = "failed", !.op = op,
                                             !.error = "KeyError"]]
               /\ UNCHANGED <<oHeap, loaded, nextId>>
          ELSE LET out == Handle(op, oHeap[oLoaded], inp)
               IN /\ nextId + out.ids - 1 <= MaxId
                  /\ oHeap' = [oHeap EXCEPT ![oLoaded] = out.data]
                  /\ loaded' = [loaded EXCEPT ![e] = out.data]
                  /\ nextId' = nextId + out.ids
                  /\ oCalls' = [oCalls EXCEPT ![c] =
                        IF out.error # NONE
                        THEN [OverlapIdleCall EXCEPT
                                 !.pc = "failed", !.op = op,
                                 !.error = out.error]
                        ELSE [OverlapIdleCall EXCEPT
                                 !.pc = "save", !.op = op, !.ref = oLoaded,
                                 !.plant = IF op = "add_plant"
                                           THEN Uuid(nextId)
                                           ELSE inp.plant_id]]
    /\ UNCHANGED <<cfg, store, saves, reloads, registered, call, oLoaded>>

\* await data.async_save(): the object the call holds is written
OverlapSave(c) ==
    /\ oCalls[c].pc = "save"
    /\ store' = With(store, PlantsEntry, Payload(oHeap[oCalls[c].ref]))
    /\ oCalls' = [oCalls EXCEPT ![c].pc = "unload"]
    /\ UNCHANGED <<cfg, loaded, saves, reloads, registered, nextId, call,
                   oHeap, oLoaded>>

\* async_reload, first half: async_unload_entry pops the entry's data
OverlapUnload(c) ==
    /\ oCalls[c].pc = "unload"
    /\ loaded' = Without(loaded, PlantsEntry)
    /\ oLoaded' = 0
    /\ oCalls' = [oCalls EXCEPT ![c].pc = "load"]
    /\ UNCHANGED <<cfg, store, saves, reloads, registered, nextId, call,
                   oHeap>>

\* async_reload, second half: async_setup_entry puts a new object, loaded
\* from the store, into hass.data
OverlapLoad(c) ==
    /\ oCalls[c].pc = "load"
    /\ SetupEntry(PlantsEntry)
    /\ oHeap' = Append(oHeap, Loaded(PlantsEntry))
    /\ oLoaded' = Len(oHeap) + 1
    /\ oCalls' = [oCalls EXCEPT ![c].pc = "done"]
    /\ UNCHANGED <<cfg, saves, reloads, call>>

\* the Plants entry is set up from a store that holds one plant or two
OverlapInit ==
    /\ token = TRUE
    /\ ToolInit
    /\ MatchIdle
    /\ HistIdle
    /\ EntIdle
    /\ ProxyIdle
    /\ PointIdle
    /\ RoundIdle
    /\ FlowIdle
    /\ cfg = <<PlantsEntry>>
    /\ \E d \in {StoredPlant,
                 DataAddPlant(StoredPlant, 2, "Fern", NONE)} :
          /\ oHeap = <<d>>
          /\ loaded = With(EmptyMap, PlantsEntry, d)
          /\ store = With(EmptyMap, PlantsEntry, Payload(d))
          /\ nextId = Len(d.plants) + 1
    /\ oLoaded = 1
    /\ oCalls = [c \in 1..MaxOverlap |-> OverlapIdleCall]
    /\ saves = 0
    /\ reloads = 0
    /\ registered = TRUE
    /\ call = CallIdle

OverlapFrame ==
    UNCHANGED <<toolVars, matchVars, histVars, entVars, proxyVars, pointVars,
                roundVars, flowVars>>

OverlapNext ==
    \/ \E c \in 1..MaxOverlap : \E i \in OverlapInputs(c) :
          OverlapCall(c, i.op, i.inp) /\ OverlapFrame
    \/ \E c \in 1..MaxOverlap : OverlapSave(c) /\ OverlapFrame
    \/ \E c \in 1..MaxOverlap : OverlapUnload(c) /\ OverlapFrame
    \/ \E c \in 1..MaxOverlap : OverlapLoad(c) /\ OverlapFrame

SpecOverlap == OverlapInit /\ [][OverlapNext]_vars

\* what a completed call has done is seen in the plants
EffectIn(c, plants) ==
    LET ids == {plants[i].plant_id : i \in 1..Len(plants)}
    IN IF oCalls[c].op = "add_plant" THEN oCalls[c].plant \in ids
       ELSE oCalls[c].plant \notin ids

\* C24: when service calls for the same entry overlap, no call fails in any
\* interleaving of their await points, and once all have finished the store
\* and the loaded data of the entry show what each of them did.
C24_OverlappingCallsComplete ==
    /\ \A c \in DOMAIN oCalls : oCalls[c].pc # "failed"
    /\ (\A c \in DOMAIN oCalls : oCalls[c].pc = "done")
       => /\ PlantsEntry \in DOMAIN loaded
          /\ \A c \in DOMAIN oCalls :
                /\ EffectIn(c, loaded[PlantsEntry].plants)
                /\ EffectIn(c, ParseRaw(store[PlantsEntry]).plants)

\* C25: a proxy mirrors the outlet it is linked to at the moment: when an
\* outlet changes state, the proxies that write their state are exactly
\* those whose plant field names that outlet, also after the field was set
\* through its select (which saves and does not reload the entry).
C25_ProxyFollowsSelectedOutlet ==
    [][\A o \in ProxyOutlets :
          (xStates # <<>> /\ xStates'[o] # xStates[o])
          => \A k \in ProxyKinds : (k \in xWrote') <=> (Outlet(k) = o)]_vars

\* C26: when remove_plant has succeeded (as a service call or from the
\* options flow) and the entry has been reloaded from the store, the loaded
\* plants are the plants the handler was left with, those before the call
\* without the removed one: the reload adds no plant, also when the last
\* plant was removed.
C26_ReloadAddsNoPlant ==
    (/\ call.pc = "done"
     /\ call.op \in {"remove_plant", "flow_remove_plant"}
     /\ call.plant_id # NONE
     /\ call.entry \in DOMAIN loaded)
    => /\ loaded[call.entry].plants = call.data.plants
       /\ PlantIdsOf(loaded[call.entry]) \subseteq PlantIdsOf(call.data)

(***************************************************************************)
(* Saving and loading the plants (specification SpecRound): the payload    *)
(* PlantsData.async_save writes for a plants map is parsed again by        *)
(* PlantsData._parse_raw, and _parse_raw is applied to records as a store  *)
(* may hold them, an id or a name missing.                                 *)
(***************************************************************************)
MaxRecords == 2

\* the plants a map in memory may hold: the name is any str that add_plant
\* was given, the empty one too
RoundPlants ==
    {NewPlant(i, n, m) : i \in {Uuid(1), Uuid(2)}, n \in {"", "Rose"},
                         m \in {NONE, "sensor.soil"}}

\* plants maps: every plant under its own id
RoundMaps ==
    {q \in SeqsUpTo(RoundPlants, MaxRecords) :
        \A i, j \in 1..Len(q) : i # j => q[i].plant_id # q[j].plant_id}

\* the records of a stored payload
RoundItems ==
    [id : {NONE, "", Uuid(1)}, name : {NONE, "", "Rose"},
     moisture_entity_id : {NONE, "sensor.soil"}]

RoundInputs ==
    {[kind |-> "map", plants |-> q, items |-> <<>>] : q \in RoundMaps} \cup
    {[kind |-> "store", plants |-> <<>>, items |-> q] :
        q \in SeqsUpTo(RoundItems, MaxRecords)}

\* async_save of the map and _parse_raw of what it wrote
SaveAndParse ==
    /\ rIn.kind = "map"
    /\ ~rOut.done
    /\ rOut' = [done |-> TRUE,
                plants |-> ParseRaw(Payload([plants |-> rIn.plants,
                                             lamps |-> <<>>])).plants]
    /\ UNCHANGED rIn

\* _parse_raw of the records the store holds
ParseStored ==
    /\ rIn.kind = "store"
    /\ ~rOut.done
    /\ rOut' = [done |-> TRUE,
                plants |-> ParseRaw([plants |-> rIn.items,
                                     lamps |-> <<>>]).plants]
    /\ UNCHANGED rIn

RoundInit ==
    /\ token = TRUE
    /\ ToolInit
    /\ MatchIdle
    /\ HistIdle
    /\ HaIdle
    /\ EntIdle
    /\ ProxyIdle
    /\ PointIdle
    /\ OverlapIdle
    /\ FlowIdle
    /\ rIn \in RoundInputs
    /\ rOut = NotParsed

RoundFrame ==
    UNCHANGED <<toolVars, matchVars, histVars, haVars, entVars, proxyVars,
                pointVars, overlapVars, flowVars>>

RoundNext ==
    \/ SaveAndParse /\ RoundFrame
    \/ ParseStored /\ RoundFrame

SpecRound == RoundInit /\ [][RoundNext]_vars

\* C27: _parse_raw of the payload async_save writes gives the plants map
\* back, the same keys in the same order and every field of every plant as
\* it was (an empty name and None-valued links too); and a stored record
\* without an id never gives a plant.
C27_SaveThenLoadIsIdentity ==
    rOut.done =>
        /\ rIn.kind = "map" => rOut.plants = rIn.plants
        /\ rIn.kind = "store" =>
              \A p \in Range(rOut.plants) :
                 \E i \in 1..Len(rIn.items) :
                    /\ rIn.items[i].id # NONE
                    /\ rIn.items[i].id = p.plant_id

(***************************************************************************)
(* The user config flows (specification SpecFlows): up to MaxFlows flows   *)
(* of PlantsConfigFlow at once.  A config entry is kept as its data, the   *)
(* entry_type it was created with (NONE for an entry whose data has no     *)
(* entry_type).  async_step_user does not await: its check of the current  *)
(* entries and the creation of the entry are one step.                     *)
(***************************************************************************)
MaxFlows == 3

EntryTypes == {"plants", "meter_locations"}

\* existing.data.get("entry_type", "plants")
EntryTypeOf(data) == IF data = NONE THEN "plants" ELSE data

FlowNone == [pc |-> "none", entry_type |-> NONE, reason |-> NONE, with |-> {}]

\* async_step_user without the loop over the current entries
UserStepNoCheck(entries, entry_type) ==
    [type |-> "create_entry", reason |-> NONE, data |-> entry_type]

\* async_step_user(user_input) with an entry_type: the result of the step
UserStep(entries, entry_type) ==
    IF \E i \in 1..Len(entries) : EntryTypeOf(entries[i]) = entry_type
    THEN [type |-> "abort",
          reason |-> IF entry_type = "plants" THEN "plants_instance_allowed"
                     ELSE "meter_locations_instance_allowed",
          data |-> NONE]
    ELSE [type |-> "create_entry", reason |-> NONE, data |-> entry_type]

\* async_step_user(None): the form is shown
FlowStart(f) ==
    /\ fFlows[f].pc = "none"
    /\ fFlows' = [fFlows EXCEPT ![f].pc = "form"]
    /\ UNCHANGED fEntries

\* the form is submitted: the flow aborts, or its entry is created
FlowSubmit(f, entry_type) ==
    /\ fFlows[f].pc = "form"
    /\ LET r == UserStep(fEntries, entry_type)
           others == {g \in DOMAIN fFlows : g # f /\ fFlows[g].pc = "form"}
       IN /\ fFlows' = [fFlows EXCEPT ![f] =
                [pc |-> IF r.type = "abort" THEN "aborted" ELSE "created",
                 entry_type |-> entry_type, reason |-> r.reason,
                 with |-> others]]
          /\ fEntries' = IF r.type = "create_entry"
                         THEN Append(fEntries, r.data) ELSE fEntries

\* a flow that has ended is gone
FlowClose(f) ==
    /\ fFlows[f].pc \in {"created", "aborted"}
    /\ fFlows' = [fFlows EXCEPT ![f] = FlowNone]
    /\ UNCHANGED fEntries

\* the user deletes a config entry
FlowEntryRemove(i) ==
    /\ i \in 1..Len(fEntries)
    /\ fEntries' = SubSeq(fEntries, 1, i - 1)
                      \o SubSeq(fEntries, i + 1, Len(fEntries))
    /\ UNCHANGED fFlows

\* no entry yet, or one entry that was created without an entry_type
FlowsInit ==
    /\ token = TRUE
    /\ ToolInit
    /\ MatchIdle
    /\ HistIdle
    /\ HaIdle
    /\ EntIdle
    /\ ProxyIdle
    /\ PointIdle
    /\ OverlapIdle
    /\ RoundIdle
    /\ fEntries \in {<<>>, <<NONE>>}
    /\ fFlows = [f \in 1..MaxFlows |-> FlowNone]

FlowsFrame ==
    UNCHANGED <<toolVars, matchVars, histVars, haVars, entVars, proxyVars,
                pointVars, overlapVars, roundVars>>

FlowsNext ==
    \/ (\E f \in 1..MaxFlows : FlowStart(f)) /\ FlowsFrame
    \/ (\E f \in 1..MaxFlows : \E t \in EntryTypes : FlowSubmit(f, t))
          /\ FlowsFrame
    \/ (\E f \in 1..MaxFlows : FlowClose(f)) /\ FlowsFrame
    \/ (\E i \in 1..Len(fEntries) : FlowEntryRemove(i)) /\ FlowsFrame

SpecFlows == FlowsInit /\ [][FlowsNext]_vars

\* the entries of an entry_type
EntriesOfType(entries, t) ==
    {i \in 1..Len(entries) : EntryTypeOf(entries[i]) = t}

\* C28: there is never more than one config entry of entry_type "plants"
\* nor more than one of "meter_locations"; a user flow for a type that has
\* an entry aborts with plants_instance_allowed or
\* meter_locations_instance_allowed and creates nothing, also when flows
\* for the same type are in progress at once.
C28_OneEntryPerType ==
    /\ [](\A t \in EntryTypes : Cardinality(EntriesOfType(fEntries, t)) <= 1)
    /\ [][\A f \in DOMAIN fFlows : \A t \in EntryTypes :
             (/\ fFlows[f].pc = "form"
              /\ fFlows'[f].pc # "form"
              /\ fFlows'[f].entry_type = t)
             => IF EntriesOfType(fEntries, t) # {}
                THEN /\ fFlows'[f].pc = "aborted"
                     /\ fFlows'[f].reason =
                           (IF t = "plants" THEN "plants_instance_allowed"
                            ELSE "meter_locations_instance_allowed")
                     /\ fEntries' = fEntries
                ELSE /\ fFlows'[f].pc = "created"
                     /\ fEntries' = Append(fEntries, t)]_vars

\* C28's case: two flows stood at the form at once and both were submitted
\* for "plants": one created the entry, the other was aborted.
C28_Witness ==
    \E f, g \in DOMAIN fFlows :
        /\ fFlows[f].pc = "created" /\ fFlows[f].entry_type = "plants"
        /\ g \in fFlows[f].with
        /\ fFlows[g].pc = "aborted"
        /\ fFlows[g].reason = "plants_instance_allowed"
        /\ Cardinality(EntriesOfType(fEntries, "plants")) = 1

====
